---- MODULE Spec2Model ----
(***************************************************************************)
(* Session log storage of sudo_logsrvd (sudo 1.9.7p1): the journal sink    *)
(* (logsrvd/logsrvd_journal.c) and the local sink (logsrvd/logsrvd_local.c)*)
(* as state machines over a small filesystem.                              *)
(*                                                                         *)
(* Strings (paths, log ids) are sequences of character codes, files are    *)
(* sequences of bytes, a struct timespec is a pair <<tv_sec, tv_nsec>>.    *)
(***************************************************************************)
EXTENDS Integers, Sequences, FiniteSets, TLC

(* ------------------------------ bounds --------------------------------- *)
\* connections served by the process when their messages interleave
NSessions == 3
\* connections served by the process one after another
NSerial == 2
\* names mkstemp() can produce in one directory
NNames == 2
\* alert/iobuf/winsize/suspend messages the server receives, all sessions together
MaxMsgs == 2
\* calls the environment makes fail (allocation, disk, event loop) in one run
MaxFaults == 1
\* the random_drop percentage of a server configured to drop
DropPercent == 50

Sessions == 1..NSessions
Names == 1..NNames

(* ----------------------------- constants ------------------------------- *)
MESSAGE_SIZE_MAX == 2097152
\* unit of tv_nsec carried by one byte of the modelled wire format
NSEC_UNIT == 100000000

\* ClientMessage type_case values
ACCEPT_MSG == 1
REJECT_MSG == 2
EXIT_MSG == 3
RESTART_MSG == 4
ALERT_MSG == 5
TTYIN_BUF == 6
TTYOUT_BUF == 7
STDIN_BUF == 8
STDOUT_BUF == 9
STDERR_BUF == 10
WINSIZE_EVENT == 11
SUSPEND_EVENT == 12

\* I/O log file slots and the event kinds of timing records
IOFD_TTYIN == 3
IOFD_TTYOUT == 4
IOFD_TIMING == 5
IO_EVENT_WINSIZE == 5
IO_EVENT_SUSPEND == 7

\* character codes
SLASH == 47
CH_h == 104

NULL == "NULL"
NoIno == 0

(* --------------------------- pure helpers ------------------------------ *)
Last(q) == q[Len(q)]

\* sudo_timespecadd() as used by update_elapsed_time(): add, then carry
update_elapsed_time(delta, elapsed) ==
    LET NSEC_PER_SEC == 1000000000
    IN
    IF delta[2] + elapsed[2] >= NSEC_PER_SEC
    THEN <<delta[1] + elapsed[1] + 1, delta[2] + elapsed[2] - NSEC_PER_SEC>>
    ELSE <<delta[1] + elapsed[1], delta[2] + elapsed[2]>>

\* sudo_timespeccmp(a, b, >=) and (a, b, ==)
timespec_ge(a, b) == IF a[1] = b[1] THEN a[2] >= b[2] ELSE a[1] > b[1]
timespec_eq(a, b) == a[1] = b[1] /\ a[2] = b[2]

\* htonl((uint32_t)len) as it lies in memory: most significant byte first
htonl(n) ==
    <<(n \div 16777216) % 256, (n \div 65536) % 256, (n \div 256) % 256, n % 256>>

\* ntohl() of four bytes read from the file
ntohl(b) == b[1] * 16777216 + b[2] * 65536 + b[3] * 256 + b[4]

(* ------------------------- messages and codec -------------------------- *)
\* delays and resume points used by the clients of the model
Delays == {<<0, 600000000>>, <<1, 0>>}
ZeroTime == <<0, 0>>

Msg(t, f, d) == [type |-> t, flag |-> f, delay |-> d]

\* what client_message__unpack() returns for bytes that are no message
NoMsg == Msg(-1, FALSE, ZeroTime)

AcceptMsgs == {Msg(ACCEPT_MSG, f, ZeroTime) : f \in BOOLEAN}
RejectMsg == Msg(REJECT_MSG, FALSE, ZeroTime)
ExitMsg == Msg(EXIT_MSG, FALSE, ZeroTime)
AlertMsg == Msg(ALERT_MSG, FALSE, ZeroTime)
RestartMsg(log_id, resume_point) ==
    [type |-> RESTART_MSG, flag |-> FALSE, delay |-> resume_point, log_id |-> log_id]
IoBufMsgs == {Msg(TTYOUT_BUF, FALSE, d) : d \in Delays}
\* the local sink is also sent terminal input
BufTypes == {TTYIN_BUF, TTYOUT_BUF}
LocalIoBufMsgs == IoBufMsgs \cup {Msg(TTYIN_BUF, FALSE, <<0, 600000000>>)}
\* the stream the dispatcher hands to the sink with an IoBuffer of a type
IofdOf(msg) == IF msg.type = TTYIN_BUF THEN IOFD_TTYIN ELSE IOFD_TTYOUT
WinsizeMsgs == {Msg(WINSIZE_EVENT, FALSE, d) : d \in Delays}
SuspendMsgs == {Msg(SUSPEND_EVENT, FALSE, d) : d \in Delays}

HasDelay(t) == t \in {TTYIN_BUF, TTYOUT_BUF, STDIN_BUF, STDOUT_BUF, STDERR_BUF,
                      WINSIZE_EVENT, SUSPEND_EVENT}

\* the wire bytes of a message (the protobuf encoder, a black box to the sinks):
\* the type tag, then the flag of an accept or the delay of a timed event; the
\* data of an IoBuffer follows its delay
Pack(m) ==
    IF m.type = ACCEPT_MSG THEN <<m.type, IF m.flag THEN 1 ELSE 0>>
    ELSE IF HasDelay(m.type) THEN <<m.type, m.delay[1], m.delay[2] \div NSEC_UNIT>>
    ELSE <<m.type>>

\* client_message__unpack(): NoMsg when the bytes are no message; no bytes at
\* all are a message with no type set
Unpack(b) ==
    IF Len(b) = 0 THEN Msg(0, FALSE, ZeroTime)
    ELSE IF b[1] = ACCEPT_MSG /\ Len(b) = 2 /\ b[2] \in {0, 1}
         THEN Msg(ACCEPT_MSG, b[2] = 1, ZeroTime)
    ELSE IF b[1] \in {REJECT_MSG, EXIT_MSG, ALERT_MSG} /\ Len(b) = 1
         THEN Msg(b[1], FALSE, ZeroTime)
    ELSE IF b[1] \in {WINSIZE_EVENT, SUSPEND_EVENT} /\ Len(b) = 3 /\ b[3] < 10
         THEN Msg(b[1], FALSE, <<b[2], b[3] * NSEC_UNIT>>)
    ELSE IF HasDelay(b[1]) /\ Len(b) >= 3 /\ b[3] < 10
         THEN Msg(b[1], FALSE, <<b[2], b[3] * NSEC_UNIT>>)
    ELSE NoMsg

(* ------------------------------ paths ---------------------------------- *)
RelayDir ==
    LET CH_r == 114
    IN  <<SLASH, CH_r>>
INCOMING == <<105, 110, 99, 111, 109, 105, 110, 103>>
OUTGOING == <<111, 117, 116, 103, 111, 105, 110, 103>>

\* the name mkstemp() made of RELAY_TEMPLATE
NameStr(n) ==
    LET CH_a0 == 96
    IN  <<CH_a0 + n>>

\* snprintf("%s/%s/%s", relay_dir, parent_dir, name)
JournalPath(parent_dir, n) == RelayDir \o <<SLASH>> \o parent_dir \o <<SLASH>> \o NameStr(n)

\* path resolution collapses repeated slashes
RECURSIVE Normalize(_)
Normalize(p) ==
    IF Len(p) < 2 THEN p
    ELSE IF p[1] = SLASH /\ p[2] = SLASH THEN Normalize(Tail(p))
    ELSE <<p[1]>> \o Normalize(Tail(p))

\* the directory entry a path names: [dir, name], name 0 when it names none
Lookup(p) ==
    LET q == Normalize(p) IN
    IF \E n \in Names : q = JournalPath(INCOMING, n)
    THEN [dir |-> "incoming", name |-> CHOOSE n \in Names : q = JournalPath(INCOMING, n)]
    ELSE IF \E n \in Names : q = JournalPath(OUTGOING, n)
    THEN [dir |-> "outgoing", name |-> CHOOSE n \in Names : q = JournalPath(OUTGOING, n)]
    ELSE [dir |-> "none", name |-> 0]

(* --------------------------- stdio streams ----------------------------- *)
\* a FILE: the inode it is open on, the stream position, the unwritten buffer
\* rd is NotRead while the stream was not read from; after fread() it is the
\* offset of the descriptor, which read ahead of the position of the stream
NotRead == -1
NoFile == [ino |-> NoIno, pos |-> 0, buf |-> <<>>, rd |-> NotRead]

\* bytes b stored at offset off of content c (off <= Len(c))
WriteAt(c, off, b) ==
    IF b = <<>> THEN c
    ELSE [i \in 1..(IF off + Len(b) > Len(c) THEN off + Len(b) ELSE Len(c)) |->
             IF i > off /\ i <= off + Len(b) THEN b[i - off] ELSE c[i]]

\* the content of the inode once the buffer of h has been written out
Flushed(c, h) == WriteAt(c, h.pos - Len(h.buf), h.buf)

(* ------------------------------ state ---------------------------------- *)
VARIABLES
    closure,    \* struct connection_closure of each session
    pc,         \* where each session stands in the protocol
    hist,       \* the messages handed to the sink of each session, in order
    ret,        \* return value of the last sink call of each session
    finish,     \* locals of a journal_finish under way: outgoing name
    incoming,   \* <relay-dir>/incoming: name -> inode
    outgoing,   \* <relay-dir>/outgoing: name -> inode
    fdata,      \* inode -> bytes on disk
    flock,      \* inode -> session holding the advisory lock, 0 when none
    faults,     \* failures injected by the environment so far
    nmsgs,      \* alert/iobuf/winsize/suspend messages received so far
    cms,        \* the client_message_switch the server runs with
    random_drop,    \* percentage of iobufs the local sink drops
    iolog_compress, \* whether new I/O logs are compressed
    iologs,     \* the I/O log directories of the local sink
    mkd,        \* a call of iolog_mkdtemp(): its locals, the effective ids
    unesc,      \* a call of strlcpy_unescape(): arguments, buffer, result
    fuzz        \* a run of the fuzz stub's main(): arguments, locals, calls made

jvars == <<closure, pc, hist, ret, finish, incoming, outgoing, fdata, flock, faults, nmsgs>>
conf == <<cms, random_drop, iolog_compress>>
aux == <<mkd, unesc, fuzz>>
vars == <<jvars, conf, iologs, aux>>

\* inodes: the journal a session creates, the placeholder its finish creates
Inodes == 1..(2 * NSessions)
JournalIno(s) == s

\* the I/O logs: a directory with a timing file, which is a sequence of
\* records, and one data file for each stream written so far
IoFds == {IOFD_TTYIN, IOFD_TTYOUT, IOFD_TIMING}
Streams == IoFds \ {IOFD_TIMING}
Logs == 1..NSessions
NoLog == [exists |-> FALSE, wbit |-> FALSE, compressed |-> FALSE, files |-> {},
          timing |-> <<>>, data |-> [f \in Streams |-> <<>>]]
NoIoFile == [enabled |-> FALSE, pos |-> 0]

NewClosure == [
    elapsed_time |-> ZeroTime,
    errstr |-> NULL,
    journal |-> NoFile,
    journal_path |-> <<>>,
    reply |-> <<>>,
    write_ev |-> FALSE,
    evlog |-> FALSE,
    iolog_path |-> <<>>,
    log_io |-> FALSE,
    iolog_dir_fd |-> 0,
    iolog_files |-> [f \in IoFds |-> NoIoFile] ]

\* no call of iolog_mkdtemp() or strlcpy_unescape() is under way, no fuzz stub runs
NoMkd == [pc |-> "idle", ok |-> FALSE, uid_changed |-> FALSE, errno |-> "none",
          ids |-> "user", entry |-> "user", nswap |-> 0, nrestore |-> 0,
          ncalls |-> 0, parents |-> FALSE, dir |-> "none", ret |-> FALSE]
NoUnesc == [pc |-> "idle", src |-> <<>>, size |-> 0, dst |-> <<>>, len |-> 0,
            td |-> 0, errors |-> 0]
Apart == mkd = NoMkd /\ unesc = NoUnesc /\ fuzz = [pc |-> "idle"]

Init ==
    /\ closure = [s \in Sessions |-> NewClosure]
    /\ pc = [s \in Sessions |-> "new"]
    /\ hist = [s \in Sessions |-> <<>>]
    /\ ret = [s \in Sessions |-> TRUE]
    /\ finish = [s \in Sessions |-> 0]
    /\ incoming = [n \in Names |-> NoIno]
    /\ outgoing = [n \in Names |-> NoIno]
    /\ fdata = [i \in Inodes |-> <<>>]
    /\ flock = [i \in Inodes |-> 0]
    /\ faults = 0
    /\ nmsgs = 0
    /\ iologs = [l \in Logs |-> NoLog]
    /\ \/ cms = "cms_journal" /\ random_drop = 0 /\ iolog_compress = FALSE
       \/ cms = "cms_local" /\ random_drop \in {0, DropPercent}
             /\ iolog_compress \in BOOLEAN
    /\ Apart

(* ------------------------- the journal sink ---------------------------- *)
\* The handlers are functions of a "world": the closures, the two directories,
\* the inodes and the locks, with the handler's return value in ok.  What the
\* environment decides (which call fails, the name mkstemp() picks, whether
\* stdio writes its buffer out) is the parameter env.
World == [cl |-> closure, incoming |-> incoming, outgoing |-> outgoing,
          fdata |-> fdata, flock |-> flock, logs |-> iologs, ok |-> TRUE,
          hit |-> FALSE]

Env(fail, name, spill) ==
    [fail |-> fail, name |-> name, spill |-> spill, drop |-> FALSE, ahead |-> FALSE]

\* the environment may make a call fail while its budget lasts
MayFail(fail) == fail = "none" \/ faults < MaxFaults
Injected(fail, w) == IF fail # "none" /\ (~w.ok \/ w.hit) THEN faults + 1 ELSE faults

\* mkstemp() picks a name that does not exist; it fails when there is none
NameChoices(dir) ==
    LET FreeNames == {n \in Names : dir[n] = NoIno}
    IN  IF FreeNames = {} THEN {1} ELSE FreeNames

Fail(w, s, msg) == [w EXCEPT !.cl[s].errstr = msg, !.ok = FALSE]

\* an inode with no name and no open stream is gone
Gc(w) ==
    LET Linked(i) == \E n \in Names : w.incoming[n] = i \/ w.outgoing[n] = i
        Opened(i) == \E s \in Sessions : w.cl[s].journal.ino = i
    IN
    [w EXCEPT !.fdata = [i \in Inodes |->
                            IF Linked(i) \/ Opened(i) THEN w.fdata[i] ELSE <<>>]]

\* journal_fdopen(): sets closure->journal_path, then closure->journal
journal_fdopen(w, s, fd, journal_path, env) ==
    IF env.fail = "strdup" THEN [w EXCEPT !.ok = FALSE]
    ELSE IF env.fail = "fdopen"
    THEN [w EXCEPT !.cl[s].journal_path = journal_path, !.ok = FALSE]
    ELSE [w EXCEPT !.cl[s].journal_path = journal_path,
                   !.cl[s].journal = [ino |-> fd, pos |-> 0, buf |-> <<>>, rd |-> NotRead]]

\* journal_mkstemp(): the directory after mkstemp() created name n as inode ino,
\* unchanged when the path is too long, the parent cannot be made or mkstemp fails
journal_mkstemp_ok(dir, n, env) == env.fail # "mkstemp" /\ dir[n] = NoIno
journal_mkstemp(dir, n, ino) == [dir EXCEPT ![n] = ino]

\* journal_create() without the unlink() of its failure paths
journal_create_keep(w, s, env) ==
    LET n == env.name
        fd == JournalIno(s)
        journal_path == JournalPath(INCOMING, n)
        w1 == [w EXCEPT !.incoming = journal_mkstemp(w.incoming, n, fd)]
        locked == [w1 EXCEPT !.flock[fd] = s]
        opened == journal_fdopen(locked, s, fd, journal_path, env)
    IN  IF ~journal_mkstemp_ok(w.incoming, n, env)
        THEN Fail(w, s, "unable to create journal file")
        ELSE IF env.fail = "lock"
        THEN Fail(w1, s, "unable to lock journal file")
        ELSE IF ~opened.ok
        THEN Fail([opened EXCEPT !.flock[fd] = 0], s, "unable to allocate memory")
        ELSE opened

\* journal_create()
journal_create(w, s, env) ==
    LET n == env.name
        fd == JournalIno(s)
        journal_path == JournalPath(INCOMING, n)
        w1 == [w EXCEPT !.incoming = journal_mkstemp(w.incoming, n, fd)]
        unlinked == [w1 EXCEPT !.incoming[n] = NoIno]
        locked == [w1 EXCEPT !.flock[fd] = s]
        opened == journal_fdopen(locked, s, fd, journal_path, env)
    IN  IF ~journal_mkstemp_ok(w.incoming, n, env)
        THEN Fail(w, s, "unable to create journal file")
        ELSE IF env.fail = "lock"
        THEN Fail(unlinked, s, "unable to lock journal file")
        ELSE IF ~opened.ok
        THEN Fail([opened EXCEPT !.incoming[n] = NoIno, !.flock[fd] = 0], s,
                  "unable to allocate memory")
        ELSE opened

\* journal_write(): the length in network byte order, then the payload.
\* fwrite() to a stream that was last read from, with no fseek() or fflush()
\* in between, is undefined: the bytes go to the position of the stream or,
\* when the read buffer is dropped as it is, to the offset of the descriptor
journal_write(w, s, buf, env) ==
    LET towrite(f, ahead) ==
            IF f.rd = NotRead THEN f
            ELSE [f EXCEPT !.pos = IF ahead THEN f.rd ELSE @, !.rd = NotRead]
        \* fwrite(): the bytes go to the buffer
        fwrite(f, b) == [f EXCEPT !.buf = @ \o b, !.pos = @ + Len(b)]
        h == towrite(w.cl[s].journal, env.ahead)
        h1 == fwrite(h, htonl(Len(buf)))
        h2 == fwrite(h1, buf)
    IN  IF env.fail = "fwrite_len"
        THEN Fail(w, s, "unable to write journal file")
        ELSE IF env.fail = "fwrite_data"
        THEN Fail([w EXCEPT !.cl[s].journal = h1], s, "unable to write journal file")
        ELSE IF env.spill
        THEN [w EXCEPT !.fdata[h.ino] = Flushed(w.fdata[h.ino], h2),
                       !.cl[s].journal = [h2 EXCEPT !.buf = <<>>]]
        ELSE [w EXCEPT !.cl[s].journal = h2]

\* journal_accept() that sends the log id and never arms the write event
journal_accept_noarm(w, s, msg, env) ==
    LET w1 == journal_create(w, s, env)
        w2 == journal_write(w1, s, Pack(msg), env)
        w3 == [w2 EXCEPT !.cl[s].reply = w2.cl[s].journal_path]
    IN  IF ~w1.ok THEN w1
        ELSE IF ~w2.ok THEN w2
        ELSE IF ~msg.flag THEN w2
        ELSE IF env.fail = "fmt_log_id" THEN [w2 EXCEPT !.ok = FALSE]
        ELSE IF env.fail = "ev_add" THEN [w3 EXCEPT !.ok = FALSE]
        ELSE w3

\* journal_accept()
journal_accept(w, s, msg, env) ==
    LET w1 == journal_create(w, s, env)
        w2 == journal_write(w1, s, Pack(msg), env)
        w3 == [w2 EXCEPT !.cl[s].reply = w2.cl[s].journal_path]
    IN  IF ~w1.ok THEN w1
        ELSE IF ~w2.ok THEN w2
        ELSE IF ~msg.flag THEN w2
        ELSE IF env.fail = "fmt_log_id" THEN [w2 EXCEPT !.ok = FALSE]
        ELSE IF env.fail = "ev_add" THEN [w3 EXCEPT !.ok = FALSE]
        ELSE [w3 EXCEPT !.cl[s].write_ev = TRUE]

\* journal_reject()
journal_reject(w, s, msg, env) ==
    LET w1 == journal_create(w, s, env)
    IN  IF ~w1.ok THEN w1 ELSE journal_write(w1, s, Pack(msg), env)

\* journal_alert(), journal_suspend(), journal_winsize()
journal_alert(w, s, msg, env) == journal_write(w, s, Pack(msg), env)
journal_suspend(w, s, msg, env) == journal_write(w, s, Pack(msg), env)
journal_winsize(w, s, msg, env) == journal_write(w, s, Pack(msg), env)

\* journal_iobuf()
journal_iobuf(w, s, msg, env) ==
    LET w1 == journal_write(w, s, Pack(msg), env)
    IN  IF ~w1.ok THEN w1
        ELSE [w1 EXCEPT !.cl[s].elapsed_time = update_elapsed_time(msg.delay, @)]

\* journal_finish() up to the creation of the outgoing name:
\* fflush(), rewind(), journal_mkstemp("outgoing")
journal_finish_begin(w, s, env) ==
    LET PlaceholderIno == NSessions + s
    IN
    LET h == w.cl[s].journal
        w1 == [w EXCEPT !.fdata[h.ino] = Flushed(w.fdata[h.ino], h),
                        !.cl[s].journal = [h EXCEPT !.buf = <<>>, !.pos = 0, !.rd = NotRead]]
    IN  IF env.fail = "fflush" THEN Fail(w, s, "unable to write journal file")
        ELSE IF ~journal_mkstemp_ok(w.outgoing, env.name, env)
        THEN Fail(w1, s, "unable to rename journal file")
        ELSE [w1 EXCEPT !.outgoing = journal_mkstemp(w.outgoing, env.name, PlaceholderIno)]

\* journal_finish() from rename() on; n is the outgoing name made above
journal_finish_rename(w, s, n, env) ==
    LET old == Lookup(w.cl[s].journal_path)
        outgoing_path == JournalPath(OUTGOING, n)
        renamed == [w EXCEPT !.outgoing[n] = w.incoming[old.name],
                             !.incoming[old.name] = NoIno]
    IN  IF env.fail = "rename" \/ old.dir # "incoming" \/ w.incoming[old.name] = NoIno
        THEN Fail([w EXCEPT !.outgoing[n] = NoIno], s, "unable to rename journal file")
        ELSE IF Len(w.cl[s].journal_path) = Len(outgoing_path)
        THEN [renamed EXCEPT !.cl[s].journal_path = outgoing_path]
        ELSE IF env.fail = "strdup"
        THEN Fail([renamed EXCEPT !.cl[s].journal_path = <<>>], s,
                  "unable to allocate memory")
        ELSE [renamed EXCEPT !.cl[s].journal_path = outgoing_path]

\* journal_seek() taking the first frame at or past the target for the resume point
RECURSIVE journal_seek_past(_, _, _, _)
journal_seek_past(c, p, e, target) ==
    IF Len(c) - p < 4
    THEN [ok |-> FALSE, pos |-> Len(c), elapsed |-> e,
          errstr |-> "unexpected EOF reading journal file"]
    ELSE
    LET msg_len == ntohl(SubSeq(c, p + 1, p + 4)) IN
    IF msg_len > MESSAGE_SIZE_MAX
    THEN [ok |-> FALSE, pos |-> p + 4, elapsed |-> e,
          errstr |-> "client message too large"]
    ELSE IF Len(c) - (p + 4) < msg_len
    THEN [ok |-> FALSE, pos |-> Len(c), elapsed |-> e,
          errstr |-> "unexpected EOF reading journal file"]
    ELSE
    LET msg == Unpack(SubSeq(c, p + 5, p + 4 + msg_len))
        q == p + 4 + msg_len
    IN
    IF msg = NoMsg
    THEN [ok |-> FALSE, pos |-> q, elapsed |-> e,
          errstr |-> "invalid journal file, unable to restart"]
    ELSE
    LET e1 == IF HasDelay(msg.type) THEN update_elapsed_time(msg.delay, e) ELSE e IN
    IF timespec_ge(e1, target)
    THEN [ok |-> TRUE, pos |-> q, elapsed |-> e1, errstr |-> NULL]
    ELSE journal_seek_past(c, q, e1, target)

\* journal_seek() taking the end of the journal for the resume point
RECURSIVE journal_seek_eof_ok(_, _, _, _)
journal_seek_eof_ok(c, p, e, target) ==
    IF Len(c) = p
    THEN [ok |-> TRUE, pos |-> p, elapsed |-> e, errstr |-> NULL]
    ELSE IF Len(c) - p < 4
    THEN [ok |-> FALSE, pos |-> Len(c), elapsed |-> e,
          errstr |-> "unexpected EOF reading journal file"]
    ELSE
    LET msg_len == ntohl(SubSeq(c, p + 1, p + 4)) IN
    IF msg_len > MESSAGE_SIZE_MAX
    THEN [ok |-> FALSE, pos |-> p + 4, elapsed |-> e,
          errstr |-> "client message too large"]
    ELSE IF Len(c) - (p + 4) < msg_len
    THEN [ok |-> FALSE, pos |-> Len(c), elapsed |-> e,
          errstr |-> "unexpected EOF reading journal file"]
    ELSE
    LET msg == Unpack(SubSeq(c, p + 5, p + 4 + msg_len))
        q == p + 4 + msg_len
    IN
    IF msg = NoMsg
    THEN [ok |-> FALSE, pos |-> q, elapsed |-> e,
          errstr |-> "invalid journal file, unable to restart"]
    ELSE
    LET e1 == IF HasDelay(msg.type) THEN update_elapsed_time(msg.delay, e) ELSE e IN
    IF timespec_ge(e1, target)
    THEN IF timespec_eq(e1, target)
         THEN [ok |-> TRUE, pos |-> q, elapsed |-> e1, errstr |-> NULL]
         ELSE [ok |-> FALSE, pos |-> q, elapsed |-> e1,
               errstr |-> "invalid journal file, unable to restart"]
    ELSE journal_seek_eof_ok(c, q, e1, target)

\* journal_seek() passing over a frame that does not unpack
RECURSIVE journal_seek_skip(_, _, _, _)
journal_seek_skip(c, p, e, target) ==
    IF Len(c) - p < 4
    THEN [ok |-> FALSE, pos |-> Len(c), elapsed |-> e,
          errstr |-> "unexpected EOF reading journal file"]
    ELSE
    LET msg_len == ntohl(SubSeq(c, p + 1, p + 4)) IN
    IF msg_len > MESSAGE_SIZE_MAX
    THEN [ok |-> FALSE, pos |-> p + 4, elapsed |-> e,
          errstr |-> "client message too large"]
    ELSE IF Len(c) - (p + 4) < msg_len
    THEN [ok |-> FALSE, pos |-> Len(c), elapsed |-> e,
          errstr |-> "unexpected EOF reading journal file"]
    ELSE
    LET msg == Unpack(SubSeq(c, p + 5, p + 4 + msg_len))
        q == p + 4 + msg_len
    IN
    IF msg = NoMsg
    THEN journal_seek_skip(c, q, e, target)
    ELSE
    LET e1 == IF HasDelay(msg.type) THEN update_elapsed_time(msg.delay, e) ELSE e IN
    IF timespec_ge(e1, target)
    THEN IF timespec_eq(e1, target)
         THEN [ok |-> TRUE, pos |-> q, elapsed |-> e1, errstr |-> NULL]
         ELSE [ok |-> FALSE, pos |-> q, elapsed |-> e1,
               errstr |-> "invalid journal file, unable to restart"]
    ELSE journal_seek_skip(c, q, e1, target)

\* journal_seek() refusing a frame of MESSAGE_SIZE_MAX bytes
RECURSIVE journal_seek_ge(_, _, _, _)
journal_seek_ge(c, p, e, target) ==
    IF Len(c) - p < 4
    THEN [ok |-> FALSE, pos |-> Len(c), elapsed |-> e,
          errstr |-> "unexpected EOF reading journal file"]
    ELSE
    LET msg_len == ntohl(SubSeq(c, p + 1, p + 4)) IN
    IF msg_len >= MESSAGE_SIZE_MAX
    THEN [ok |-> FALSE, pos |-> p + 4, elapsed |-> e,
          errstr |-> "client message too large"]
    ELSE IF Len(c) - (p + 4) < msg_len
    THEN [ok |-> FALSE, pos |-> Len(c), elapsed |-> e,
          errstr |-> "unexpected EOF reading journal file"]
    ELSE
    LET msg == Unpack(SubSeq(c, p + 5, p + 4 + msg_len))
        q == p + 4 + msg_len
    IN
    IF msg = NoMsg
    THEN [ok |-> FALSE, pos |-> q, elapsed |-> e,
          errstr |-> "invalid journal file, unable to restart"]
    ELSE
    LET e1 == IF HasDelay(msg.type) THEN update_elapsed_time(msg.delay, e) ELSE e IN
    IF timespec_ge(e1, target)
    THEN IF timespec_eq(e1, target)
         THEN [ok |-> TRUE, pos |-> q, elapsed |-> e1, errstr |-> NULL]
         ELSE [ok |-> FALSE, pos |-> q, elapsed |-> e1,
               errstr |-> "invalid journal file, unable to restart"]
    ELSE journal_seek_ge(c, q, e1, target)

\* journal_seek(): read frames of content c from offset p until the elapsed
\* time e reaches target
RECURSIVE journal_seek(_, _, _, _)
journal_seek(c, p, e, target) ==
    IF Len(c) - p < 4
    THEN [ok |-> FALSE, pos |-> Len(c), elapsed |-> e,
          errstr |-> "unexpected EOF reading journal file"]
    ELSE
    LET msg_len == ntohl(SubSeq(c, p + 1, p + 4)) IN
    IF msg_len > MESSAGE_SIZE_MAX
    THEN [ok |-> FALSE, pos |-> p + 4, elapsed |-> e,
          errstr |-> "client message too large"]
    ELSE IF Len(c) - (p + 4) < msg_len
    THEN [ok |-> FALSE, pos |-> Len(c), elapsed |-> e,
          errstr |-> "unexpected EOF reading journal file"]
    ELSE
    LET msg == Unpack(SubSeq(c, p + 5, p + 4 + msg_len))
        q == p + 4 + msg_len
    IN
    IF msg = NoMsg
    THEN [ok |-> FALSE, pos |-> q, elapsed |-> e,
          errstr |-> "invalid journal file, unable to restart"]
    ELSE
    LET e1 == IF HasDelay(msg.type) THEN update_elapsed_time(msg.delay, e) ELSE e IN
    IF timespec_ge(e1, target)
    THEN IF timespec_eq(e1, target)
         THEN [ok |-> TRUE, pos |-> q, elapsed |-> e1, errstr |-> NULL]
         ELSE [ok |-> FALSE, pos |-> q, elapsed |-> e1,
               errstr |-> "invalid journal file, unable to restart"]
    ELSE journal_seek(c, q, e1, target)

\* the part of log_id after the leading hostname
\* journal_restart() stripping up to the first slash wherever it is
StripHost_always(log_id) ==
    IF \E i \in 1..Len(log_id) : log_id[i] = SLASH
    THEN LET i == CHOOSE i \in 1..Len(log_id) :
                    log_id[i] = SLASH /\ \A j \in 1..(i - 1) : log_id[j] # SLASH
         IN  SubSeq(log_id, i + 1, Len(log_id))
    ELSE log_id

StripHost(log_id) ==
    IF \E i \in 1..Len(log_id) : log_id[i] = SLASH
    THEN LET i == CHOOSE i \in 1..Len(log_id) :
                    log_id[i] = SLASH /\ \A j \in 1..(i - 1) : log_id[j] # SLASH
         IN  IF i # 1 THEN SubSeq(log_id, i + 1, Len(log_id)) ELSE log_id
    ELSE log_id

\* journal_restart(); a read error or a failed malloc() of journal_seek() is
\* taken at its first frame
journal_restart(w, s, log_id, resume_point, env) ==
    LET journal_path == RelayDir \o <<SLASH>> \o INCOMING \o <<SLASH>> \o StripHost(log_id)
        at == Lookup(journal_path)
        fd == w.incoming[at.name]
        c == w.fdata[fd]
        w1 == journal_fdopen(w, s, fd, journal_path, env)
        r == journal_seek(c, 0, w.cl[s].elapsed_time, resume_point)
        w2 == [w1 EXCEPT !.cl[s].journal.pos = r.pos, !.cl[s].journal.rd = Len(c),
                         !.cl[s].elapsed_time = r.elapsed]
    IN  IF env.fail = "open" \/ at.dir # "incoming" \/ fd = NoIno
        THEN Fail(w, s, "unable to create journal file")
        ELSE IF ~w1.ok THEN Fail(w1, s, "unable to allocate memory")
        ELSE IF env.fail = "fread" THEN Fail(w1, s, "error reading journal file")
        ELSE IF env.fail = "malloc" /\ Len(c) >= 4 /\ ntohl(SubSeq(c, 1, 4)) # 0
                /\ ntohl(SubSeq(c, 1, 4)) <= MESSAGE_SIZE_MAX
        THEN Fail([w1 EXCEPT !.cl[s].journal.pos = 4], s, "unable to allocate memory")
        ELSE IF ~r.ok THEN Fail(w2, s, r.errstr)
        ELSE w2

\* connection_closure_free(): fclose() writes the buffer out and drops the lock,
\* the closure is freed
connection_close(w, s) ==
    LET h == w.cl[s].journal
    IN  IF h.ino = NoIno THEN [w EXCEPT !.cl[s] = NewClosure]
        ELSE [w EXCEPT !.fdata[h.ino] = Flushed(w.fdata[h.ino], h),
                       !.flock[h.ino] = IF @ = s THEN 0 ELSE @,
                       !.cl[s] = NewClosure]

(* -------------------------- the local sink ----------------------------- *)
\* Writes to the files of an I/O log reach the file at once; the timing file
\* is kept record by record.
LEnv(fail, drop) == [fail |-> fail, name |-> 1, spill |-> FALSE, drop |-> drop]

\* the "bad:" label of the handlers: errstr is set unless it already is
Bad(w, s, msg) ==
    [w EXCEPT !.cl[s].errstr = IF @ = NULL THEN msg ELSE @, !.ok = FALSE]

\* the path of an I/O log and the log a path names, 0 when it names none
LogPath(l) ==
    LET CH_0 == 48
    IN  <<CH_0 + l>>
LogAt(w, p) ==
    IF \E l \in Logs : p = LogPath(l) /\ w.logs[l].exists
    THEN CHOOSE l \in Logs : p = LogPath(l) /\ w.logs[l].exists
    ELSE 0

\* one record of the timing file, as the snprintf() of the handlers lays it out
TimingRecord(event, delay, n) == [event |-> event, delay |-> delay, nbytes |-> n]

\* the data the clients of the model send in an IoBuffer
DataOf(msg) == IF msg.delay[1] = 0 THEN <<120>> ELSE <<120, 121>>

\* iolog_init(): the log directory is made under the next free log id, opened,
\* and its timing file created with the write bits of iolog_mode
iolog_init(w, s, env) ==
    LET free == {l \in Logs : ~w.logs[l].exists}
        l == CHOOSE l \in free : \A k \in free : l <= k
    IN  IF env.fail = "iolog_init" \/ free = {} THEN [w EXCEPT !.ok = FALSE]
        ELSE [w EXCEPT !.logs[l] = [NoLog EXCEPT !.exists = TRUE, !.wbit = TRUE,
                                                 !.compressed = iolog_compress,
                                                 !.files = {IOFD_TIMING}],
                       !.cl[s].iolog_dir_fd = l,
                       !.cl[s].iolog_path = LogPath(l),
                       !.cl[s].iolog_files[IOFD_TIMING] = [enabled |-> TRUE, pos |-> 0]]

\* iolog_create(): the file of slot iofd is opened for writing, made or emptied
iolog_create(w, s, iofd) ==
    LET l == w.cl[s].iolog_dir_fd
    IN  [w EXCEPT !.logs[l].files = @ \cup {iofd},
                  !.logs[l].data[iofd] = <<>>,
                  !.cl[s].iolog_files[iofd] = [enabled |-> TRUE, pos |-> 0]]

\* iolog_write() to the data file of slot iofd
iolog_write_data(w, s, iofd, b) ==
    LET l == w.cl[s].iolog_dir_fd
        f == w.cl[s].iolog_files[iofd]
    IN  [w EXCEPT !.logs[l].data[iofd] = WriteAt(@, f.pos, b),
                  !.cl[s].iolog_files[iofd].pos = f.pos + Len(b)]

\* iolog_write() of one record to the timing file
iolog_write_timing(w, s, rec) ==
    LET l == w.cl[s].iolog_dir_fd
        f == w.cl[s].iolog_files[IOFD_TIMING]
    IN  [w EXCEPT !.logs[l].timing = IF f.pos < Len(@) THEN [@ EXCEPT ![f.pos + 1] = rec]
                                     ELSE Append(@, rec),
                  !.cl[s].iolog_files[IOFD_TIMING].pos = f.pos + 1]

\* store_accept_local()
store_accept_local(w, s, msg, env) ==
    LET w1 == [w EXCEPT !.cl[s].evlog = TRUE]
        w2 == IF msg.flag THEN iolog_init(w1, s, env) ELSE w1
        w3 == IF msg.flag THEN [w2 EXCEPT !.cl[s].log_io = TRUE] ELSE w2
        w4 == [w3 EXCEPT !.cl[s].reply = w3.cl[s].iolog_path]
    IN  IF env.fail = "evlog_new" THEN Fail(w, s, "error parsing AcceptMessage")
        ELSE IF ~w2.ok THEN Fail(w2, s, "error creating I/O log")
        ELSE IF env.fail = "eventlog" THEN Fail(w3, s, "error logging accept event")
        ELSE IF ~msg.flag THEN w3
        ELSE IF env.fail = "fmt_log_id" THEN [w3 EXCEPT !.ok = FALSE]
        ELSE IF env.fail = "ev_add" THEN [w4 EXCEPT !.ok = FALSE]
        ELSE [w4 EXCEPT !.cl[s].write_ev = TRUE]

\* store_reject_local()
store_reject_local(w, s, msg, env) ==
    IF env.fail = "evlog_new" THEN Fail(w, s, "error parsing RejectMessage")
    ELSE IF env.fail = "eventlog"
    THEN Fail([w EXCEPT !.cl[s].evlog = TRUE], s, "error logging reject event")
    ELSE [w EXCEPT !.cl[s].evlog = TRUE]

\* store_alert_local(), for an alert that brings no info_msgs
store_alert_local(w, s, msg, env) ==
    IF env.fail = "eventlog" THEN Fail(w, s, "error logging alert event") ELSE w

\* store_exit_local() leaving the mode of the timing file alone
store_exit_local_keep(w, s, msg, env) == w

\* store_exit_local() failing when fchmodat() does
store_exit_local_strict(w, s, msg, env) ==
    IF ~w.cl[s].log_io THEN w
    ELSE IF env.fail = "fchmodat" THEN [w EXCEPT !.hit = TRUE, !.ok = FALSE]
    ELSE [w EXCEPT !.logs[w.cl[s].iolog_dir_fd].wbit = FALSE]

\* store_exit_local(): a failure of fchmodat() is logged and nothing else

store_exit_local(w, s, msg, env) ==
    IF ~w.cl[s].log_io THEN w
    ELSE IF env.fail = "fchmodat" THEN [w EXCEPT !.hit = TRUE]
    ELSE [w EXCEPT !.logs[w.cl[s].iolog_dir_fd].wbit = FALSE]

\* iolog_open_all(): every file the log has is opened for reading and writing
iolog_open_all(w, s, l) ==
    [w EXCEPT !.cl[s].iolog_files =
        [f \in IoFds |-> IF f \in w.logs[l].files THEN [enabled |-> TRUE, pos |-> 0]
                         ELSE NoIoFile]]

\* iolog_seekto(): the timing file is read record by record, the elapsed time
\* e and the position of the data files advancing, until e reaches target
RECURSIVE iolog_seekto(_, _, _, _)
iolog_seekto(timing, files, e, target) ==
    LET at == files[IOFD_TIMING].pos IN
    IF at >= Len(timing) THEN [ok |-> FALSE, files |-> files, elapsed |-> e]
    ELSE
    LET rec == timing[at + 1]
        e1 == update_elapsed_time(rec.delay, e)
        f1 == [files EXCEPT ![IOFD_TIMING].pos = at + 1]
        f2 == IF rec.event \in Streams
              THEN [f1 EXCEPT ![rec.event].pos = @ + rec.nbytes] ELSE f1
    IN
    IF rec.event \in Streams /\ ~files[rec.event].enabled
    THEN [ok |-> FALSE, files |-> f1, elapsed |-> e1]
    ELSE IF timespec_ge(e1, target)
    THEN [ok |-> timespec_eq(e1, target), files |-> f2, elapsed |-> e1]
    ELSE iolog_seekto(timing, f2, e1, target)

\* iolog_rewrite(): the log is replayed up to target into new files that take
\* the place of the old ones; writes append from there
iolog_rewrite(w, s, target, env) ==
    LET l == w.cl[s].iolog_dir_fd
        r == iolog_seekto(w.logs[l].timing, w.cl[s].iolog_files,
                          w.cl[s].elapsed_time, target)
        w1 == [w EXCEPT !.cl[s].elapsed_time = r.elapsed]
    IN  IF env.fail = "rewrite" \/ ~r.ok THEN [w1 EXCEPT !.ok = FALSE]
        ELSE [w1 EXCEPT !.cl[s].iolog_files = r.files,
                        !.logs[l].timing = SubSeq(@, 1, r.files[IOFD_TIMING].pos),
                        !.logs[l].data = [f \in Streams |-> SubSeq(@[f], 1, r.files[f].pos)]]

\* store_restart_local() going on where iolog_seekto() left off when it failed
store_restart_local_lax(w, s, log_id, target, env) ==
    LET w1 == [w EXCEPT !.cl[s].evlog = TRUE]
        w2 == [w1 EXCEPT !.cl[s].iolog_path = log_id]
        l == LogAt(w, log_id)
        w3 == [w2 EXCEPT !.cl[s].iolog_dir_fd = l]
        w4 == iolog_open_all(w3, s, l)
        r == iolog_seekto(w.logs[l].timing, w4.cl[s].iolog_files,
                          w.cl[s].elapsed_time, target)
        w5 == [w4 EXCEPT !.cl[s].iolog_files = r.files, !.cl[s].elapsed_time = r.elapsed]
    IN  IF env.fail = "calloc" THEN Fail(w, s, "unable to allocate memory")
        ELSE IF env.fail = "strdup" THEN Fail(w1, s, "unable to allocate memory")
        ELSE IF env.fail = "openat" \/ l = 0 THEN Bad(w2, s, "unable to restart log")
        ELSE IF env.fail = "fstatat" THEN Bad(w3, s, "unable to restart log")
        ELSE IF ~w.logs[l].wbit
        THEN Fail(w3, s, "log is already complete, cannot be restarted")
        ELSE IF env.fail = "open_all" THEN Bad(w3, s, "unable to restart log")
        ELSE IF w.logs[l].compressed THEN iolog_rewrite(w4, s, target, env)
        ELSE IF env.fail = "iolog_seek" THEN Bad(w5, s, "unable to restart log")
        ELSE w5

\* store_restart_local() without the test of the mode of the timing file
store_restart_local_nomode(w, s, log_id, target, env) ==
    LET w1 == [w EXCEPT !.cl[s].evlog = TRUE]
        w2 == [w1 EXCEPT !.cl[s].iolog_path = log_id]
        l == LogAt(w, log_id)
        w3 == [w2 EXCEPT !.cl[s].iolog_dir_fd = l]
        w4 == iolog_open_all(w3, s, l)
        r == iolog_seekto(w.logs[l].timing, w4.cl[s].iolog_files,
                          w.cl[s].elapsed_time, target)
        w5 == [w4 EXCEPT !.cl[s].iolog_files = r.files, !.cl[s].elapsed_time = r.elapsed]
    IN  IF env.fail = "calloc" THEN Fail(w, s, "unable to allocate memory")
        ELSE IF env.fail = "strdup" THEN Fail(w1, s, "unable to allocate memory")
        ELSE IF env.fail = "openat" \/ l = 0 THEN Bad(w2, s, "unable to restart log")
        ELSE IF env.fail = "fstatat" THEN Bad(w3, s, "unable to restart log")
        ELSE IF env.fail = "open_all" THEN Bad(w3, s, "unable to restart log")
        ELSE IF w.logs[l].compressed THEN iolog_rewrite(w4, s, target, env)
        ELSE IF ~r.ok THEN Bad(w5, s, "unable to restart log")
        ELSE IF env.fail = "iolog_seek" THEN Bad(w5, s, "unable to restart log")
        ELSE w5

\* store_restart_local()
store_restart_local(w, s, log_id, target, env) ==
    LET w1 == [w EXCEPT !.cl[s].evlog = TRUE]
        w2 == [w1 EXCEPT !.cl[s].iolog_path = log_id]
        l == LogAt(w, log_id)
        w3 == [w2 EXCEPT !.cl[s].iolog_dir_fd = l]
        w4 == iolog_open_all(w3, s, l)
        r == iolog_seekto(w.logs[l].timing, w4.cl[s].iolog_files,
                          w.cl[s].elapsed_time, target)
        w5 == [w4 EXCEPT !.cl[s].iolog_files = r.files, !.cl[s].elapsed_time = r.elapsed]
    IN  IF env.fail = "calloc" THEN Fail(w, s, "unable to allocate memory")
        ELSE IF env.fail = "strdup" THEN Fail(w1, s, "unable to allocate memory")
        ELSE IF env.fail = "openat" \/ l = 0 THEN Bad(w2, s, "unable to restart log")
        ELSE IF env.fail = "fstatat" THEN Bad(w3, s, "unable to restart log")
        ELSE IF ~w.logs[l].wbit
        THEN Fail(w3, s, "log is already complete, cannot be restarted")
        ELSE IF env.fail = "open_all" THEN Bad(w3, s, "unable to restart log")
        ELSE IF w.logs[l].compressed THEN iolog_rewrite(w4, s, target, env)
        ELSE IF ~r.ok THEN Bad(w5, s, "unable to restart log")
        ELSE IF env.fail = "iolog_seek" THEN Bad(w5, s, "unable to restart log")
        ELSE w5

\* store_iobuf_local() storing the delay of the chunk where it adds it
store_iobuf_local_set(w, s, iofd, msg, env) ==
    LET w2 == iolog_write_data(w, s, iofd, DataOf(msg))
        w3 == iolog_write_timing(w2, s, TimingRecord(iofd, msg.delay, Len(DataOf(msg))))
    IN  [w3 EXCEPT !.cl[s].elapsed_time = msg.delay]

\* store_iobuf_local() deciding the drop before it writes anything
store_iobuf_local_early(w, s, iofd, msg, env) ==
    LET w1 == IF w.cl[s].iolog_files[iofd].enabled THEN w ELSE iolog_create(w, s, iofd)
        w2 == iolog_write_data(w1, s, iofd, DataOf(msg))
        w3 == iolog_write_timing(w2, s, TimingRecord(iofd, msg.delay, Len(DataOf(msg))))
        w4 == [w3 EXCEPT !.cl[s].elapsed_time = update_elapsed_time(msg.delay, @)]
    IN  IF random_drop > 0 /\ env.drop THEN [w EXCEPT !.ok = FALSE]
        ELSE IF ~w.cl[s].iolog_files[iofd].enabled /\ env.fail = "iolog_create"
        THEN Bad(w, s, "error writing IoBuffer")
        ELSE IF env.fail = "write_data" THEN Bad(w1, s, "error writing IoBuffer")
        ELSE IF env.fail = "write_timing" THEN Bad(w2, s, "error writing IoBuffer")
        ELSE w4

\* store_iobuf_local() writing the data of every chunk to the ttyout file
store_iobuf_local_ttyout(w, s, iofd, msg, env) ==
    LET w1 == IF w.cl[s].iolog_files[iofd].enabled THEN w ELSE iolog_create(w, s, iofd)
        w0 == IF w1.cl[s].iolog_files[IOFD_TTYOUT].enabled THEN w1
              ELSE iolog_create(w1, s, IOFD_TTYOUT)
        w2 == iolog_write_data(w0, s, IOFD_TTYOUT, DataOf(msg))
        w3 == iolog_write_timing(w2, s, TimingRecord(iofd, msg.delay, Len(DataOf(msg))))
        w4 == [w3 EXCEPT !.cl[s].elapsed_time = update_elapsed_time(msg.delay, @)]
    IN  IF ~w.cl[s].iolog_files[iofd].enabled /\ env.fail = "iolog_create"
        THEN Bad(w, s, "error writing IoBuffer")
        ELSE IF env.fail = "write_data" THEN Bad(w1, s, "error writing IoBuffer")
        ELSE IF env.fail = "write_timing" THEN Bad(w2, s, "error writing IoBuffer")
        ELSE IF random_drop > 0 /\ env.drop THEN [w4 EXCEPT !.ok = FALSE]
        ELSE w4

\* store_iobuf_local()
store_iobuf_local(w, s, iofd, msg, env) ==
    LET w1 == IF w.cl[s].iolog_files[iofd].enabled THEN w ELSE iolog_create(w, s, iofd)
        w2 == iolog_write_data(w1, s, iofd, DataOf(msg))
        w3 == iolog_write_timing(w2, s, TimingRecord(iofd, msg.delay, Len(DataOf(msg))))
        w4 == [w3 EXCEPT !.cl[s].elapsed_time = update_elapsed_time(msg.delay, @)]
    IN  IF ~w.cl[s].iolog_files[iofd].enabled /\ env.fail = "iolog_create"
        THEN Bad(w, s, "error writing IoBuffer")
        ELSE IF env.fail = "write_data" THEN Bad(w1, s, "error writing IoBuffer")
        ELSE IF env.fail = "write_timing" THEN Bad(w2, s, "error writing IoBuffer")
        ELSE IF random_drop > 0 /\ env.drop THEN [w4 EXCEPT !.ok = FALSE]
        ELSE w4

\* store_winsize_local() leaving the elapsed time as it was
store_winsize_local_still(w, s, msg, env) ==
    iolog_write_timing(w, s, TimingRecord(IO_EVENT_WINSIZE, msg.delay, 0))

\* store_winsize_local()
store_winsize_local(w, s, msg, env) ==
    LET w1 == iolog_write_timing(w, s, TimingRecord(IO_EVENT_WINSIZE, msg.delay, 0))
    IN  IF env.fail = "write_timing" THEN Bad(w, s, "error writing ChangeWindowSize")
        ELSE [w1 EXCEPT !.cl[s].elapsed_time = update_elapsed_time(msg.delay, @)]

\* store_suspend_local()
store_suspend_local(w, s, msg, env) ==
    LET w1 == iolog_write_timing(w, s, TimingRecord(IO_EVENT_SUSPEND, msg.delay, 0))
    IN  IF env.fail = "write_timing" THEN Bad(w, s, "error writing CommandSuspend")
        ELSE [w1 EXCEPT !.cl[s].elapsed_time = update_elapsed_time(msg.delay, @)]

(* --------------------- the dispatcher and its sessions ----------------- *)
\* The server is single-threaded: a handler runs to completion before another
\* message is dispatched.  journal_finish() is the one handler whose steps are
\* kept apart, because what it does to outgoing/ in between is visible to other
\* processes.
Idle == \A t \in Sessions : pc[t] \notin {"finish_close", "finish_rename"}
Journal == cms = "cms_journal" /\ Idle
Local == cms = "cms_local" /\ Idle

\* sessions are numbered in the order of their first message
Turn(s) == pc[s] = "new" /\ \A t \in Sessions : t < s => pc[t] # "new"

\* alert/iobuf/winsize/suspend messages count against MaxMsgs
MoreMsgs == nmsgs < MaxMsgs

ResumePoints == {ZeroTime, <<0, 300000000>>, <<0, 600000000>>, <<1, 200000000>>}

\* the sink call of session s on msg returned with world w
Return(s, msg, w, okpc, fail) ==
    LET MidTypes == {ALERT_MSG, TTYIN_BUF, TTYOUT_BUF, WINSIZE_EVENT, SUSPEND_EVENT}
    IN
    LET g == Gc(w) IN
    /\ MayFail(fail)
    /\ faults' = Injected(fail, w)
    /\ closure' = g.cl
    /\ incoming' = g.incoming
    /\ outgoing' = g.outgoing
    /\ fdata' = g.fdata
    /\ flock' = g.flock
    /\ iologs' = g.logs
    /\ hist' = [hist EXCEPT ![s] = Append(@, msg)]
    /\ nmsgs' = IF msg.type \in MidTypes THEN nmsgs + 1 ELSE nmsgs
    /\ ret' = [ret EXCEPT ![s] = w.ok]
    /\ pc' = [pc EXCEPT ![s] = IF w.ok THEN okpc ELSE "failed"]
    /\ UNCHANGED <<conf, aux>>

JournalAcceptOf(s, msgs) ==
    /\ Journal /\ Turn(s)
    /\ \E msg \in msgs, n \in NameChoices(incoming), spill \in BOOLEAN,
          fail \in {"none", "mkstemp", "lock", "strdup", "fdopen", "fwrite_len",
                    "fwrite_data", "fmt_log_id", "ev_add"} :
          Return(s, msg, journal_accept(World, s, msg, Env(fail, n, spill)),
                 IF msg.flag THEN "streaming" ELSE "accepted", fail)
    /\ UNCHANGED finish

JournalAccept(s) == JournalAcceptOf(s, AcceptMsgs)

JournalReject(s) ==
    /\ Journal /\ Turn(s)
    /\ \E n \in NameChoices(incoming), spill \in BOOLEAN,
          fail \in {"none", "mkstemp", "lock", "strdup", "fdopen", "fwrite_len",
                    "fwrite_data"} :
          Return(s, RejectMsg, journal_reject(World, s, RejectMsg, Env(fail, n, spill)),
                 "rejected", fail)
    /\ UNCHANGED finish

JournalRestartOf(s, ids, points) ==
    /\ Journal /\ Turn(s)
    /\ \E log_id \in ids, resume_point \in points,
          fail \in {"none", "open", "strdup", "fdopen", "fread", "malloc"} :
          Return(s, RestartMsg(log_id, resume_point),
                 journal_restart(World, s, log_id, resume_point, Env(fail, 1, FALSE)),
                 "streaming", fail)
    /\ UNCHANGED finish

JournalRestart(s) ==
    LET LogIds == UNION {{NameStr(n), <<CH_h, SLASH>> \o NameStr(n), JournalPath(INCOMING, n)}
                         : n \in Names}
    IN
    JournalRestartOf(s, LogIds, ResumePoints)

\* the outcomes of the first fwrite() after the journal was read: one when
\* the descriptor is where the stream is, two when it read ahead
EnvAhead(fail, name, spill, ahead) == [Env(fail, name, spill) EXCEPT !.ahead = ahead]
Aheads(s) ==
    IF closure[s].journal.rd > closure[s].journal.pos THEN BOOLEAN ELSE {FALSE}

JournalAlert(s) ==
    /\ Journal /\ pc[s] \in {"streaming", "accepted"} /\ MoreMsgs
    /\ \E spill \in BOOLEAN, ahead \in Aheads(s),
          fail \in {"none", "fwrite_len", "fwrite_data"} :
          Return(s, AlertMsg, journal_alert(World, s, AlertMsg,
                                            EnvAhead(fail, 1, spill, ahead)), pc[s], fail)
    /\ UNCHANGED finish

JournalIobuf(s) ==
    /\ Journal /\ pc[s] = "streaming" /\ MoreMsgs
    /\ \E msg \in IoBufMsgs, spill \in BOOLEAN, ahead \in Aheads(s),
          fail \in {"none", "fwrite_len", "fwrite_data"} :
          Return(s, msg, journal_iobuf(World, s, msg, EnvAhead(fail, 1, spill, ahead)),
                 pc[s], fail)
    /\ UNCHANGED finish

JournalSuspend(s) ==
    /\ Journal /\ pc[s] = "streaming" /\ MoreMsgs
    /\ \E msg \in SuspendMsgs, spill \in BOOLEAN, ahead \in Aheads(s),
          fail \in {"none", "fwrite_len", "fwrite_data"} :
          Return(s, msg, journal_suspend(World, s, msg, EnvAhead(fail, 1, spill, ahead)),
                 pc[s], fail)
    /\ UNCHANGED finish

JournalWinsize(s) ==
    /\ Journal /\ pc[s] = "streaming" /\ MoreMsgs
    /\ \E msg \in WinsizeMsgs, spill \in BOOLEAN, ahead \in Aheads(s),
          fail \in {"none", "fwrite_len", "fwrite_data"} :
          Return(s, msg, journal_winsize(World, s, msg, EnvAhead(fail, 1, spill, ahead)),
                 pc[s], fail)
    /\ UNCHANGED finish

\* journal_exit(): journal_write(), then journal_finish() as far as the
\* creation of the outgoing name
JournalExit(s) ==
    /\ Journal /\ pc[s] \in {"streaming", "accepted"}
    /\ \E n \in NameChoices(outgoing), spill \in BOOLEAN, ahead \in Aheads(s),
          fail \in {"none", "fwrite_len", "fwrite_data", "fflush", "mkstemp"} :
          LET env == EnvAhead(fail, n, spill, ahead)
              w1 == journal_write(World, s, Pack(ExitMsg), env)
              w2 == IF w1.ok THEN journal_finish_begin(w1, s, env) ELSE w1
          IN  /\ Return(s, ExitMsg, w2, "finish_close", fail)
              /\ finish' = [finish EXCEPT ![s] = IF w2.ok THEN n ELSE 0]

\* journal_finish(): close() of the descriptor mkstemp() returned
FinishClose(s) ==
    /\ pc[s] = "finish_close"
    /\ pc' = [pc EXCEPT ![s] = "finish_rename"]
    /\ UNCHANGED <<closure, hist, ret, finish, incoming, outgoing, fdata, flock, faults,
                   nmsgs, conf, iologs, aux>>

\* journal_finish(): rename() and the update of closure->journal_path
FinishRename(s) ==
    /\ pc[s] = "finish_rename"
    /\ \E fail \in {"none", "rename", "strdup"} :
          LET w == journal_finish_rename(World, s, finish[s], Env(fail, 1, FALSE))
              g == Gc(w)
          IN  /\ MayFail(fail)
              /\ faults' = Injected(fail, w)
              /\ closure' = g.cl
              /\ incoming' = g.incoming
              /\ outgoing' = g.outgoing
              /\ fdata' = g.fdata
              /\ flock' = g.flock
              /\ ret' = [ret EXCEPT ![s] = w.ok]
              /\ pc' = [pc EXCEPT ![s] = IF w.ok THEN "exited" ELSE "failed"]
    /\ finish' = [finish EXCEPT ![s] = 0]
    /\ UNCHANGED <<hist, nmsgs, conf, iologs, aux>>

\* the handlers of cms_local
LocalAccept(s) ==
    /\ Local /\ Turn(s)
    /\ \E msg \in AcceptMsgs,
          fail \in {"none", "evlog_new", "iolog_init", "eventlog", "fmt_log_id", "ev_add"} :
          Return(s, msg, store_accept_local(World, s, msg, LEnv(fail, FALSE)),
                 IF msg.flag THEN "streaming" ELSE "accepted", fail)
    /\ UNCHANGED finish

LocalReject(s) ==
    /\ Local /\ Turn(s)
    /\ \E fail \in {"none", "evlog_new", "eventlog"} :
          Return(s, RejectMsg, store_reject_local(World, s, RejectMsg, LEnv(fail, FALSE)),
                 "rejected", fail)
    /\ UNCHANGED finish

LocalRestart(s) ==
    LET LocalLogIds == {LogPath(l) : l \in 1..NSerial}
    IN
    /\ Local /\ Turn(s)
    /\ \E log_id \in LocalLogIds, resume_point \in ResumePoints,
          fail \in {"none", "calloc", "strdup", "openat", "fstatat", "open_all",
                    "rewrite", "iolog_seek"} :
          Return(s, RestartMsg(log_id, resume_point),
                 store_restart_local(World, s, log_id, resume_point, LEnv(fail, FALSE)),
                 "streaming", fail)
    /\ UNCHANGED finish

LocalAlert(s) ==
    /\ Local /\ pc[s] \in {"streaming", "accepted"} /\ MoreMsgs
    /\ \E fail \in {"none", "eventlog"} :
          Return(s, AlertMsg, store_alert_local(World, s, AlertMsg, LEnv(fail, FALSE)),
                 pc[s], fail)
    /\ UNCHANGED finish

LocalIobuf(s) ==
    /\ Local /\ pc[s] = "streaming" /\ MoreMsgs
    /\ \E msg \in LocalIoBufMsgs, drop \in BOOLEAN,
          fail \in {"none", "iolog_create", "write_data", "write_timing"} :
          Return(s, msg, store_iobuf_local(World, s, IofdOf(msg), msg, LEnv(fail, drop)),
                 pc[s], fail)
    /\ UNCHANGED finish

LocalWinsize(s) ==
    /\ Local /\ pc[s] = "streaming" /\ MoreMsgs
    /\ \E msg \in WinsizeMsgs, fail \in {"none", "write_timing"} :
          Return(s, msg, store_winsize_local(World, s, msg, LEnv(fail, FALSE)), pc[s], fail)
    /\ UNCHANGED finish

LocalSuspend(s) ==
    /\ Local /\ pc[s] = "streaming" /\ MoreMsgs
    /\ \E msg \in SuspendMsgs, fail \in {"none", "write_timing"} :
          Return(s, msg, store_suspend_local(World, s, msg, LEnv(fail, FALSE)), pc[s], fail)
    /\ UNCHANGED finish

LocalExit(s) ==
    /\ Local /\ pc[s] \in {"streaming", "accepted"}
    /\ \E fail \in {"none", "fchmodat"} :
          Return(s, ExitMsg, store_exit_local(World, s, ExitMsg, LEnv(fail, FALSE)),
                 "exited", fail)
    /\ UNCHANGED finish

\* the connection is torn down: after the last message, a failure or a timeout
Close(s) ==
    /\ Idle /\ pc[s] \in {"streaming", "accepted", "rejected", "exited", "failed"}
    /\ LET g == Gc(connection_close(World, s))
       IN  /\ closure' = g.cl
           /\ incoming' = g.incoming
           /\ outgoing' = g.outgoing
           /\ fdata' = g.fdata
           /\ flock' = g.flock
    /\ pc' = [pc EXCEPT ![s] = "closed"]
    /\ hist' = [hist EXCEPT ![s] = <<>>]
    /\ ret' = [ret EXCEPT ![s] = TRUE]
    /\ UNCHANGED <<finish, faults, nmsgs, conf, iologs, aux>>

\* The server takes one connection at a time: a session starts when the
\* connections before it are closed.
Alone(s) == \A t \in Sessions \ {s} : pc[t] \in {"new", "closed"}

Next ==
    \E s \in 1..NSerial :
        \/ Alone(s) /\ JournalAccept(s)
        \/ Alone(s) /\ JournalReject(s)
        \/ Alone(s) /\ JournalRestart(s)
        \/ Alone(s) /\ JournalAlert(s)
        \/ Alone(s) /\ JournalIobuf(s)
        \/ Alone(s) /\ JournalSuspend(s)
        \/ Alone(s) /\ JournalWinsize(s)
        \/ Alone(s) /\ JournalExit(s)
        \/ Alone(s) /\ FinishClose(s)
        \/ Alone(s) /\ FinishRename(s)
        \/ Alone(s) /\ LocalAccept(s)
        \/ Alone(s) /\ LocalReject(s)
        \/ Alone(s) /\ LocalRestart(s)
        \/ Alone(s) /\ LocalAlert(s)
        \/ Alone(s) /\ LocalIobuf(s)
        \/ Alone(s) /\ LocalWinsize(s)
        \/ Alone(s) /\ LocalSuspend(s)
        \/ Alone(s) /\ LocalExit(s)
        \/ Alone(s) /\ Close(s)

Spec == Init /\ [][Next]_vars

\* Connections served side by side, their messages interleaved; the
\* environment lets no call fail.
InitConc == Init!1 /\ Init!2 /\ Init!3 /\ Init!4 /\ Init!5 /\ Init!6 /\ Init!7
            /\ Init!8 /\ Init!9 /\ faults = MaxFaults /\ nmsgs = 0 /\ Init!12
            /\ cms = "cms_journal" /\ random_drop = 0 /\ iolog_compress = FALSE
            /\ Apart

ConcAccept(s) == JournalAcceptOf(s, {Msg(ACCEPT_MSG, TRUE, ZeroTime)})
ConcRestart(s) == JournalRestartOf(s, {NameStr(n) : n \in Names}, {ZeroTime})

NextConc ==
    \E s \in Sessions :
        \/ ConcAccept(s)
        \/ ConcRestart(s)
        \/ JournalIobuf(s)
        \/ JournalExit(s)
        \/ FinishClose(s)
        \/ FinishRename(s)
        \/ Close(s)

SpecConc == InitConc /\ [][NextConc]_vars

\* Restarts of a journal that an earlier run of the server, or anything else
\* that wrote to the relay directory, left under incoming/: well-formed frames
\* followed by nothing, by a frame cut short, by a frame that does not unpack
\* or by a frame whose length field is at or over the limit.  The environment
\* lets no call fail.
MaxPrefix == 2

\* [length][payload] as journal_write() lays a message out
Frame(b) == htonl(Len(b)) \o b

RECURSIVE Prefixes(_)
Prefixes(k) ==
    LET GoodPayloads == {Pack(Msg(ACCEPT_MSG, TRUE, ZeroTime)), <<>>} \cup {Pack(m) : m \in IoBufMsgs}
    IN
    IF k = 0 THEN {<<>>}
    ELSE LET P == Prefixes(k - 1)
         IN  P \cup {q \o Frame(b) : q \in P, b \in GoodPayloads}

SmallBuf == Pack(Msg(TTYOUT_BUF, FALSE, <<0, 600000000>>))
InitSeek ==
    LET \* the inode of the journal found under incoming/
        SeekIno == JournalIno(NSessions)
        \* an IoBuffer whose wire form is MESSAGE_SIZE_MAX bytes long
        BigBuf == SmallBuf \o [i \in 1..(MESSAGE_SIZE_MAX - Len(SmallBuf)) |-> 120]
    IN
    LET SeekJournals ==
            LET Tails == {<<>>,
                          <<0, 0>>,
                          htonl(Len(SmallBuf)) \o <<TTYOUT_BUF>>,
                          htonl(MESSAGE_SIZE_MAX) \o SmallBuf,
                          Frame(<<99>>),
                          Frame(<<99>>) \o Frame(SmallBuf),
                          htonl(MESSAGE_SIZE_MAX + 1) \o SmallBuf}
            IN
            {q \o t : q \in Prefixes(MaxPrefix), t \in Tails}
            \cup {Frame(BigBuf), Frame(BigBuf) \o Frame(SmallBuf),
                  Frame(Pack(Msg(ACCEPT_MSG, TRUE, ZeroTime))) \o Frame(BigBuf)}
    IN
    /\ Init!1 /\ Init!2 /\ Init!3 /\ Init!4 /\ Init!5
    /\ incoming = [n \in Names |-> IF n = 1 THEN SeekIno ELSE NoIno]
    /\ Init!7
    /\ \E c \in SeekJournals : fdata = [i \in Inodes |-> IF i = SeekIno THEN c ELSE <<>>]
    /\ Init!9
    /\ faults = MaxFaults /\ nmsgs = 0
    /\ Init!12
    /\ cms = "cms_journal" /\ random_drop = 0 /\ iolog_compress = FALSE
    /\ Apart

\* a restart of that journal, and the end of a connection
NextSeek ==
    LET \* the log ids a client may send for that journal: its name alone, behind a
        \* host name, behind a slash
        SeekLogIds == {NameStr(1), <<CH_h, SLASH>> \o NameStr(1), <<SLASH>> \o NameStr(1)}
    IN
    \E s \in 1..NSerial :
        \/ Alone(s) /\ JournalRestartOf(s, SeekLogIds, ResumePoints)
        \/ Alone(s) /\ Close(s)

SpecSeek == InitSeek /\ [][NextSeek]_vars

(* ------------------------------ claims --------------------------------- *)
\* the file a path names, NoIno when it names none
InoAt(p) ==
    LET at == Lookup(p)
    IN  IF at.dir = "incoming" THEN incoming[at.name]
        ELSE IF at.dir = "outgoing" THEN outgoing[at.name]
        ELSE NoIno

\* a file read back as [uint32 big-endian][bytes] frames: the payloads in
\* order, followed by <<-1>> when trailing bytes are no whole frame
RECURSIVE ReadFrames(_)
ReadFrames(c) ==
    IF c = <<>> THEN <<>>
    ELSE IF Len(c) < 4 THEN << <<-1>> >>
    ELSE LET n == ntohl(SubSeq(c, 1, 4))
         IN  IF Len(c) < 4 + n THEN << <<-1>> >>
             ELSE <<SubSeq(c, 5, 4 + n)>> \o ReadFrames(SubSeq(c, 5 + n, Len(c)))

StartedBy(s, t) == hist[s] # <<>> /\ hist[s][1].type = t

\* C1: the finalized outgoing file of a session that started with Accept and
\* ended with a successful Exit reads back, frame by frame, as the wire bytes
\* of the messages of the session in arrival order.
C1_FramingRoundTrip ==
    LET WireOf(h) == [i \in 1..Len(h) |-> Pack(h[i])]
    IN
    \A s \in Sessions :
        (pc[s] = "exited" /\ StartedBy(s, ACCEPT_MSG)) =>
            ReadFrames(fdata[closure[s].journal.ino]) = WireOf(hist[s])

C3_NeverPartial ==
    LET \* the name in outgoing/ the journal of s ends up with, 0 before it is chosen
        FinalName(s) ==
            IF pc[s] \in {"finish_close", "finish_rename"} THEN finish[s]
            ELSE IF pc[s] = "exited" THEN Lookup(closure[s].journal_path).name
            ELSE 0
    IN
    LET \* the journal of a session in full: what is on disk and what stdio still holds
        CompleteJournal(s) == Flushed(fdata[closure[s].journal.ino], closure[s].journal)
    IN
    \A s \in Sessions :
        (FinalName(s) # 0 /\ outgoing[FinalName(s)] # NoIno) =>
            fdata[outgoing[FinalName(s)]] = CompleteJournal(s)

\* C4: when the connection of a session that ended, with a Reject or an Exit
\* handled successfully, is torn down, the journal of the session is under
\* outgoing/ and not under incoming/.
C4_HandOff ==
    [][\A s \in Sessions :
          (cms = "cms_journal" /\ pc[s] \in {"rejected", "exited"} /\ pc'[s] = "closed") =>
              /\ \A n \in Names : incoming'[n] # closure[s].journal.ino
              /\ \E n \in Names : outgoing'[n] = closure[s].journal.ino]_vars

\* C5: a session with an open journal handle holds the advisory lock on it.
C5_LockHeld ==
    \A s \in Sessions :
        closure[s].journal.ino # NoIno => flock[closure[s].journal.ino] = s

\* C6: no two sessions have the same journal file open, and no two finishes
\* under way use the same outgoing name.
C6_Exclusive ==
    \A s, t \in Sessions :
        s # t =>
            /\ closure[s].journal.ino # NoIno =>
                  closure[s].journal.ino # closure[t].journal.ino
            /\ finish[s] # 0 => finish[s] # finish[t]

TimedTypes == {TTYIN_BUF, TTYOUT_BUF, WINSIZE_EVENT, SUSPEND_EVENT}

\* the delays of the iobuf, winsize and suspend messages of h added up
RECURSIVE SumDelays(_)
SumDelays(h) ==
    IF h = <<>> THEN ZeroTime
    ELSE LET rest == SumDelays(SubSeq(h, 1, Len(h) - 1))
         IN  IF Last(h).type \in TimedTypes THEN update_elapsed_time(Last(h).delay, rest)
             ELSE rest

\* session s was handed one more message in this step
Handled(s) == Len(hist'[s]) = Len(hist[s]) + 1

\* C7: in a session that began with Accept and whose messages were all stored
\* successfully, closure->elapsed_time is the sum of the delays of its iobuf,
\* winsize and suspend messages, on the journal sink as on the local sink.
C7_SumOfDelays ==
    \A s \in Sessions :
        (StartedBy(s, ACCEPT_MSG) /\ pc[s] = "streaming") =>
            closure[s].elapsed_time = SumDelays(hist[s])

\* C8: a step of a session that is not the tear-down of its connection and
\* ends with the sink reporting success leaves closure->elapsed_time no
\* smaller than it was, on either sink, restart included.
C8_Monotone ==
    [][\A s \in Sessions :
          (pc'[s] # "closed" /\ ret'[s]) =>
              timespec_ge(closure'[s].elapsed_time, closure[s].elapsed_time)]_vars

C8_Witness ==
    \E s \in Sessions :
        /\ cms = "cms_local"
        /\ StartedBy(s, RESTART_MSG)
        /\ hist[s][1].delay # ZeroTime
        /\ Len(hist[s]) >= 2
        /\ Last(hist[s]).type \in TimedTypes
        /\ pc[s] = "streaming"
        /\ timespec_ge(closure[s].elapsed_time, <<1, 0>>)

\* C9: an iobuf, winsize or suspend call that fails leaves closure->elapsed_time
\* as it was, and one that succeeds has added the delay of the event to it.
C9_AdvanceOnlyOnSuccess ==
    [][\A s \in Sessions :
          (Handled(s) /\ Last(hist'[s]).type \in TimedTypes) =>
              closure'[s].elapsed_time =
                  IF ret'[s]
                  THEN update_elapsed_time(Last(hist'[s]).delay, closure[s].elapsed_time)
                  ELSE closure[s].elapsed_time]_vars

\* an Exit of a session of the local sink that logs I/O returned success
LocalExitDone(s) ==
    /\ cms = "cms_local"
    /\ Handled(s)
    /\ Last(hist'[s]).type = EXIT_MSG
    /\ ret'[s]
    /\ closure[s].log_io

\* C10 as stated, its first half: after an Exit of the local sink that returns
\* success for a session with an I/O log, the user-write bit of the timing
\* file of the log is clear.
C10_ExitClearsBit ==
    [][\A s \in Sessions :
          LocalExitDone(s) => ~iologs'[closure[s].iolog_dir_fd].wbit]_vars

\* C10 amended: an Exit of the local sink that returns success for a session
\* with an I/O log leaves the user-write bit of the timing file clear unless
\* fchmodat() failed; a clear bit stays clear; and a Restart naming a log whose
\* bit is clear fails, with errstr "log is already complete, cannot be
\* restarted" unless a step before the check of the bit failed.
C10_CompleteUnlessChmodFails ==
    [][/\ \A s \in Sessions :
             (LocalExitDone(s) /\ faults' = faults) =>
                 ~iologs'[closure[s].iolog_dir_fd].wbit
       /\ \A l \in Logs :
             (iologs[l].exists /\ ~iologs[l].wbit) => ~iologs'[l].wbit
       /\ \A s \in Sessions :
             (/\ cms = "cms_local"
              /\ hist[s] = <<>> /\ Handled(s)
              /\ hist'[s][1].type = RESTART_MSG
              /\ LogAt(World, hist'[s][1].log_id) # 0
              /\ ~iologs[LogAt(World, hist'[s][1].log_id)].wbit) =>
                 /\ ~ret'[s]
                 /\ faults' = faults =>
                       closure'[s].errstr = "log is already complete, cannot be restarted"]_vars

C10_Witness ==
    \E s \in Sessions :
        /\ cms = "cms_local"
        /\ StartedBy(s, RESTART_MSG)
        /\ pc[s] = "failed"
        /\ closure[s].errstr = "log is already complete, cannot be restarted"
        /\ ~iologs[closure[s].iolog_dir_fd].wbit

\* the last call of session s was an IoBuffer handed to a local sink that drops
DroppedIobuf(s) ==
    cms = "cms_local" /\ random_drop > 0 /\ hist[s] # <<>>
    /\ Last(hist[s]).type \in BufTypes

\* C11: a sink operation that returned failure has left errstr set, whatever
\* the path it failed on; the one exception is an IoBuffer of the local sink
\* dropped by the random-drop hook.
C11_FailureSetsErrstr ==
    \A s \in Sessions :
        (pc[s] = "failed" /\ ~ret[s]) =>
            (closure[s].errstr # NULL \/ DroppedIobuf(s))

\* C12: with a drop probability of 0 store_iobuf_local() fails only when a
\* call of its own failed; with a positive probability a call that fails with
\* no failed call (a drop) has written both its data and its timing record and
\* leaves errstr as it was, and a call that fails otherwise has errstr set.
C12_DropOnlyAfterWrites ==
    [][LET \* the call just made wrote the data of msg and its timing record
           BothWritten(s, msg) ==
               LET l == closure[s].iolog_dir_fd
                   old == closure[s].iolog_files
                   new == closure'[s].iolog_files
                   n == Len(DataOf(msg))
                   iofd == IofdOf(msg)
                   from == IF old[iofd].enabled THEN old[iofd].pos ELSE 0
               IN  /\ new[iofd].pos = from + n
                   /\ SubSeq(iologs'[l].data[iofd], from + 1, from + n) = DataOf(msg)
                   /\ new[IOFD_TIMING].pos = old[IOFD_TIMING].pos + 1
                   /\ iologs'[l].timing[new[IOFD_TIMING].pos] = TimingRecord(iofd, msg.delay, n)
       IN
       LET \* session s has just had an IoBuffer handled by store_iobuf_local()
           LocalIobufDone(s) ==
               cms = "cms_local" /\ Handled(s) /\ Last(hist'[s]).type \in BufTypes
       IN
       \A s \in Sessions :
          LocalIobufDone(s) =>
             /\ (random_drop = 0 /\ faults' = faults) => ret'[s]
             /\ (~ret'[s] /\ faults' = faults) =>
                    /\ random_drop > 0
                    /\ BothWritten(s, Last(hist'[s]))
                    /\ closure'[s].errstr = closure[s].errstr
             /\ (~ret'[s] /\ closure'[s].errstr = NULL) =>
                    (random_drop > 0 /\ BothWritten(s, Last(hist'[s])))]_vars

\* an IoBuffer was dropped: its record is in the timing file, errstr is not set
C12_Witness ==
    \E s \in Sessions :
        /\ pc[s] = "failed" /\ ~ret[s] /\ DroppedIobuf(s)
        /\ closure[s].errstr = NULL /\ faults = 0
        /\ iologs[closure[s].iolog_dir_fd].timing # <<>>
        /\ Last(iologs[closure[s].iolog_dir_fd].timing).delay = Last(hist[s]).delay

\* A journal read as journal_seek() reads it, from offset p: one record for each
\* frame, "frame" for a whole frame that unpacks, else what is wrong with it
\* ("cut_length", "cut_payload", "too_large", "undecodable"), which ends the
\* sequence.  at is the offset of the length field, len the length it holds.
RECURSIVE Frames(_, _)
Frames(c, p) ==
    IF Len(c) = p THEN <<>>
    ELSE IF Len(c) - p < 4
    THEN <<[kind |-> "cut_length", at |-> p, len |-> 0, msg |-> NoMsg]>>
    ELSE LET n == ntohl(SubSeq(c, p + 1, p + 4))
             m == Unpack(SubSeq(c, p + 5, p + 4 + n))
         IN  IF n > MESSAGE_SIZE_MAX
             THEN <<[kind |-> "too_large", at |-> p, len |-> n, msg |-> NoMsg]>>
             ELSE IF Len(c) - (p + 4) < n
             THEN <<[kind |-> "cut_payload", at |-> p, len |-> n, msg |-> NoMsg]>>
             ELSE IF m = NoMsg
             THEN <<[kind |-> "undecodable", at |-> p, len |-> n, msg |-> NoMsg]>>
             ELSE <<[kind |-> "frame", at |-> p, len |-> n, msg |-> m]>>
                  \o Frames(c, p + 4 + n)

\* the delays of the first k frames of F added up
RECURSIVE Cumulative(_, _)
Cumulative(F, k) ==
    IF k = 0 THEN ZeroTime
    ELSE IF HasDelay(F[k].msg.type)
         THEN update_elapsed_time(F[k].msg.delay, Cumulative(F, k - 1))
         ELSE Cumulative(F, k - 1)

Before(a, b) == ~timespec_ge(a, b)

\* journal_seek() reads frame k of F: no frame before it reached the target
Reads(F, k, target) ==
    k \in 1..Len(F) /\ \A j \in 1..(k - 1) : F[j].kind = "frame" /\ Before(Cumulative(F, j), target)

\* session s is a restart, from elapsed time 0, that has opened its journal
\* and whose journal_seek() has returned
Sought(s) ==
    /\ pc[s] \in {"streaming", "failed"}
    /\ Len(hist[s]) = 1 /\ hist[s][1].type = RESTART_MSG
    /\ closure[s].journal.ino # NoIno

SoughtFrames(s) == Frames(fdata[closure[s].journal.ino], 0)
Target(s) == hist[s][1].delay

\* C13: journal_seek(), started at elapsed time 0, succeeds exactly when the
\* delays of the frames it read add up to the target after some frame; it
\* stops at the first such frame, the stream positioned after it; when
\* the sum passes the target without having been equal to it, it fails with
\* "invalid journal file, unable to restart".
C13_SeekDecision ==
    \A s \in Sessions :
        Sought(s) =>
            LET F == SoughtFrames(s)
                Hit(k) == /\ Reads(F, k, Target(s)) /\ F[k].kind = "frame"
                          /\ Cumulative(F, k) = Target(s)
                Past(k) == /\ Reads(F, k, Target(s)) /\ F[k].kind = "frame"
                           /\ Before(Target(s), Cumulative(F, k))
            IN  /\ ret[s] <=> \E k \in 1..Len(F) : Hit(k)
                /\ \A k \in 1..Len(F) :
                      Hit(k) => /\ closure[s].journal.pos = F[k].at + 4 + F[k].len
                                /\ closure[s].elapsed_time = Target(s)
                /\ (\E k \in 1..Len(F) : Past(k)) =>
                      /\ ~ret[s]
                      /\ closure[s].errstr = "invalid journal file, unable to restart"

\* a restart that found its resume point after the second of three frames
C13_Witness ==
    \E s \in Sessions :
        /\ Sought(s) /\ ret[s] /\ Len(SoughtFrames(s)) = 3
        /\ closure[s].journal.pos = SoughtFrames(s)[3].at
        /\ Target(s) = <<1, 200000000>>

\* the journal is whole frames that unpack and their delays stay below target
EndsBefore(F, target) ==
    \A k \in 1..Len(F) : F[k].kind = "frame" /\ Before(Cumulative(F, k), target)

\* C14: when the journal ends at a frame boundary before the delays of its
\* frames have added up to the target, journal_seek(), and with it
\* journal_restart(), fails with "unexpected EOF reading journal file".
C14_EofBeforeTarget ==
    \A s \in Sessions :
        (Sought(s) /\ EndsBefore(SoughtFrames(s), Target(s))) =>
            /\ ~ret[s] /\ pc[s] = "failed"
            /\ closure[s].errstr = "unexpected EOF reading journal file"

\* a restart that read two whole frames, 0.6 s in all, looking for 1.2 s
C14_Witness ==
    \E s \in Sessions :
        /\ Sought(s) /\ EndsBefore(SoughtFrames(s), Target(s))
        /\ Len(SoughtFrames(s)) = 2
        /\ closure[s].elapsed_time = <<0, 600000000>>
        /\ Target(s) = <<1, 200000000>>
        /\ closure[s].journal.pos = Len(fdata[closure[s].journal.ino])
        /\ pc[s] = "failed"

\* the messages of journal_seek() that begin "invalid journal file"
InvalidJournalErrs == {"invalid journal file, unable to restart"}

\* journal_seek() of session s reads a frame of one of the kinds
ReadsKind(s, kinds) ==
    \E k \in 1..Len(SoughtFrames(s)) :
        Reads(SoughtFrames(s), k, Target(s)) /\ SoughtFrames(s)[k].kind \in kinds

\* C15 as stated: a restart that comes upon a frame whose length field or
\* payload is cut short, or whose bytes do not unpack, fails with an errstr
\* that begins "invalid journal file".
C15_ParseErrorsInvalid ==
    \A s \in Sessions :
        (Sought(s) /\ ReadsKind(s, {"cut_length", "cut_payload", "undecodable"})) =>
            (~ret[s] /\ closure[s].errstr \in InvalidJournalErrs)

\* C15 amended: a restart that comes upon a frame whose length field or
\* payload is cut short fails with "unexpected EOF reading journal file"; one
\* that comes upon a frame whose bytes do not unpack fails with "invalid
\* journal file, unable to restart".
C15_ParseErrors ==
    \A s \in Sessions :
        Sought(s) =>
            /\ ReadsKind(s, {"cut_length", "cut_payload"}) =>
                  /\ ~ret[s] /\ pc[s] = "failed"
                  /\ closure[s].errstr = "unexpected EOF reading journal file"
            /\ ReadsKind(s, {"undecodable"}) =>
                  /\ ~ret[s] /\ pc[s] = "failed"
                  /\ closure[s].errstr \in InvalidJournalErrs

\* a restart that read a whole frame and then one whose bytes do not unpack,
\* with a whole frame left unread after it
C15_Witness ==
    \E s \in Sessions :
        /\ Sought(s) /\ ReadsKind(s, {"undecodable"})
        /\ Len(SoughtFrames(s)) = 2
        /\ closure[s].journal.pos < Len(fdata[closure[s].journal.ino])
        /\ closure[s].errstr \in InvalidJournalErrs

\* C16: a frame whose length field is over MESSAGE_SIZE_MAX makes the seek
\* fail with "client message too large", the stream standing just after the
\* length field; a frame whose length field equals MESSAGE_SIZE_MAX is read
\* and unpacked like any other.
C16_SizeLimit ==
    \A s \in Sessions :
        Sought(s) =>
            LET F == SoughtFrames(s) IN
            \A k \in 1..Len(F) :
                Reads(F, k, Target(s)) =>
                    /\ F[k].len > MESSAGE_SIZE_MAX =>
                          /\ ~ret[s] /\ pc[s] = "failed"
                          /\ closure[s].errstr = "client message too large"
                          /\ closure[s].journal.pos = F[k].at + 4
                    /\ F[k].len = MESSAGE_SIZE_MAX =>
                          /\ closure[s].errstr # "client message too large"
                          /\ closure[s].journal.pos > F[k].at + 4
                          /\ F[k].kind = "frame" =>
                                /\ closure[s].journal.pos >= F[k].at + 4 + MESSAGE_SIZE_MAX
                                /\ timespec_ge(closure[s].elapsed_time, Cumulative(F, k))
                                /\ Cumulative(F, k) = Target(s) => ret[s]

\* a restart that read a whole frame and then a length field over the limit:
\* it failed with the payload unread
C16_Witness ==
    \E s \in Sessions :
        /\ Sought(s) /\ ~ret[s] /\ pc[s] = "failed"
        /\ Len(SoughtFrames(s)) = 2
        /\ SoughtFrames(s)[2].len = MESSAGE_SIZE_MAX + 1
        /\ closure[s].journal.pos = SoughtFrames(s)[2].at + 4
        /\ closure[s].journal.pos < Len(fdata[closure[s].journal.ino])
        /\ closure[s].errstr = "client message too large"

\* the delays of the first k records of a timing file added up
RECURSIVE CumTiming(_, _)
CumTiming(timing, k) ==
    IF k = 0 THEN ZeroTime
    ELSE update_elapsed_time(timing[k].delay, CumTiming(timing, k - 1))

\* session s has just had a Restart handled by store_restart_local()
LocalRestartDone(s) ==
    cms = "cms_local" /\ Handled(s) /\ Last(hist'[s]).type = RESTART_MSG

\* the Restart just handled named a live, uncompressed log and a resume point
\* between two of its records
Overshoots(s) ==
    LET \* target lies strictly between the times of two consecutive records
        BetweenRecords(timing, target) ==
            \E k \in 1..(Len(timing) - 1) :
                /\ Before(CumTiming(timing, k), target)
                /\ Before(target, CumTiming(timing, k + 1))
    IN
    LET msg == Last(hist'[s])
        l == LogAt(World, msg.log_id)
    IN  /\ l # 0 /\ iologs[l].wbit /\ ~iologs[l].compressed
        /\ BetweenRecords(iologs[l].timing, msg.delay)

C18_CompleteLogRefused ==
    [][LET \* the Restart just handled named a log whose timing file has its user-write
           \* bit clear
           NamesComplete(s) ==
               LET l == LogAt(World, Last(hist'[s]).log_id)
               IN  l # 0 /\ ~iologs[l].wbit
       IN
       \A s \in Sessions :
          (LocalRestartDone(s) /\ NamesComplete(s)) =>
              /\ ~ret'[s] /\ pc'[s] = "failed"
              /\ \A f \in IoFds : ~closure'[s].iolog_files[f].enabled
              /\ closure'[s].elapsed_time = closure[s].elapsed_time
              /\ iologs' = iologs
              /\ faults' = faults =>
                    closure'[s].errstr = "log is already complete, cannot be restarted"]_vars

\* a Restart at 0.6 s of a complete log whose one record is at 0.6 s was refused
C18_Witness ==
    \E s \in Sessions :
        /\ cms = "cms_local" /\ pc[s] = "failed" /\ faults = 0
        /\ Len(hist[s]) = 1 /\ hist[s][1].type = RESTART_MSG
        /\ hist[s][1].delay = <<0, 600000000>>
        /\ LET l == LogAt(World, hist[s][1].log_id)
           IN  /\ l # 0 /\ ~iologs[l].wbit /\ ~iologs[l].compressed
               /\ Len(iologs[l].timing) = 1
               /\ CumTiming(iologs[l].timing, 1) = <<0, 600000000>>
        /\ closure[s].errstr = "log is already complete, cannot be restarted"
        /\ closure[s].elapsed_time = ZeroTime

\* session s has just had its first message handled
FirstCall(s) == Handled(s) /\ hist[s] = <<>>

\* the first message of s is an Accept with expect_iobufs set
WantsIobufs(s) == hist'[s][1].type = ACCEPT_MSG /\ hist'[s][1].flag

\* C19 as stated: on either sink the first call of a session leaves a LogId
\* reply enqueued and the write event armed exactly when it is an Accept with
\* expect_iobufs that succeeded; an Accept without expect_iobufs, a Reject
\* and a failed accept leave no LogId reply enqueued.
C19_ReplyIffAccepted ==
    [][\A s \in Sessions :
          FirstCall(s) =>
              /\ (closure'[s].reply # <<>> /\ closure'[s].write_ev)
                    <=> (WantsIobufs(s) /\ ret'[s])
              /\ (~WantsIobufs(s) \/ ~ret'[s]) => closure'[s].reply = <<>>]_vars

\* C19 amended: the write event is armed exactly when the first call is an
\* Accept with expect_iobufs that succeeded, and then the LogId reply, the
\* path of the journal or of the I/O log, is enqueued; a reply is enqueued
\* only for an Accept with expect_iobufs, and with a failed accept only when
\* a call failed after it was enqueued; later calls change neither.
C19_ReplyAndArming ==
    [][\A s \in Sessions :
          /\ FirstCall(s) =>
                /\ closure'[s].write_ev <=> (WantsIobufs(s) /\ ret'[s])
                /\ closure'[s].write_ev =>
                      /\ closure'[s].reply # <<>>
                      /\ closure'[s].reply = IF cms = "cms_journal"
                                              THEN closure'[s].journal_path
                                              ELSE closure'[s].iolog_path
                /\ closure'[s].reply # <<>> => WantsIobufs(s)
                /\ (closure'[s].reply # <<>> /\ ~ret'[s]) => faults' = faults + 1
          /\ (~FirstCall(s) /\ pc'[s] # "closed") =>
                /\ closure'[s].reply = closure[s].reply
                /\ closure'[s].write_ev = closure[s].write_ev]_vars

\* an accept failed with its LogId reply enqueued and the write event not armed
C19_Witness ==
    \E s \in Sessions :
        /\ pc[s] = "failed" /\ ~ret[s]
        /\ Len(hist[s]) = 1 /\ hist[s][1].type = ACCEPT_MSG /\ hist[s][1].flag
        /\ closure[s].reply # <<>> /\ ~closure[s].write_ev
        /\ closure[s].errstr = NULL

\* C20: a Restart on the journal sink whose log_id is the log id that
\* journal_accept() sent, the journal still being under incoming/ and no call
\* of the restart failing, has the journal that the accept created open.
C20_LogIdRoundTrip ==
    [][LET \* log_id is what journal_accept() sent for a journal that is still under
           \* incoming/: the path of a journal that begins with an Accept with expect_iobufs
           SentLogId(log_id) ==
               \E n \in Names :
                   /\ log_id = JournalPath(INCOMING, n)
                   /\ incoming[n] # NoIno
                   /\ Frames(fdata[incoming[n]], 0) # <<>>
                   /\ Frames(fdata[incoming[n]], 0)[1].msg = Msg(ACCEPT_MSG, TRUE, ZeroTime)
       IN
       \A s \in Sessions :
          (/\ cms = "cms_journal" /\ FirstCall(s)
           /\ hist'[s][1].type = RESTART_MSG
           /\ SentLogId(hist'[s][1].log_id)
           /\ faults' = faults) =>
              closure'[s].journal.ino = InoAt(hist'[s][1].log_id)]_vars

\* the timing record that the local sink writes for a message
RecordOf(m) ==
    IF m.type \in BufTypes THEN TimingRecord(IofdOf(m), m.delay, Len(DataOf(m)))
    ELSE IF m.type = WINSIZE_EVENT THEN TimingRecord(IO_EVENT_WINSIZE, m.delay, 0)
    ELSE TimingRecord(IO_EVENT_SUSPEND, m.delay, 0)

\* the timing records of the messages of h, in order
RECURSIVE RecordsOf(_)
RecordsOf(h) ==
    IF h = <<>> THEN <<>>
    ELSE IF Last(h).type \in TimedTypes
         THEN Append(RecordsOf(SubSeq(h, 1, Len(h) - 1)), RecordOf(Last(h)))
         ELSE RecordsOf(SubSeq(h, 1, Len(h) - 1))

\* the data of the chunks of h for stream f, in order
RECURSIVE DataFor(_, _)
DataFor(h, f) ==
    IF h = <<>> THEN <<>>
    ELSE IF Last(h).type \in BufTypes /\ IofdOf(Last(h)) = f
         THEN DataFor(SubSeq(h, 1, Len(h) - 1), f) \o DataOf(Last(h))
         ELSE DataFor(SubSeq(h, 1, Len(h) - 1), f)

\* session s of the local sink made its I/O log with its Accept and every
\* call of it so far succeeded
LoggingFresh(s) ==
    /\ cms = "cms_local" /\ StartedBy(s, ACCEPT_MSG) /\ hist[s][1].flag
    /\ pc[s] = "streaming"

LocalEventDone(s) ==
    /\ cms = "cms_local" /\ Handled(s) /\ ret'[s]
    /\ Last(hist'[s]).type \in {WINSIZE_EVENT, SUSPEND_EVENT}

\* the data files of the log of s and their slots are as before the step
StreamsUnchanged(s) ==
    LET l == closure[s].iolog_dir_fd
    IN  /\ iologs'[l].data = iologs[l].data
        /\ iologs'[l].files = iologs[l].files
        /\ \A f \in Streams : closure'[s].iolog_files[f] = closure[s].iolog_files[f]

MaxLeft == 2
LeftLog == 1

RECURSIVE Histories(_)
Histories(k) ==
    LET LeftMsgs == LocalIoBufMsgs \cup WinsizeMsgs
    IN
    IF k = 0 THEN {<<>>}
    ELSE LET H == Histories(k - 1)
         IN  H \cup {Append(h, m) : h \in H, m \in LeftMsgs}

InitLog ==
    LET \* the log that storing the messages of h leaves on disk
        LogOf(h, compressed) ==
            [exists |-> TRUE, wbit |-> TRUE, compressed |-> compressed,
             files |-> {IOFD_TIMING} \cup {IofdOf(h[i]) : i \in {j \in 1..Len(h) : h[j].type \in BufTypes}},
             timing |-> RecordsOf(h),
             data |-> [f \in Streams |-> DataFor(h, f)]]
    IN
    /\ Init!1 /\ Init!2 /\ Init!3 /\ Init!4 /\ Init!5 /\ Init!6 /\ Init!7 /\ Init!8
    /\ Init!9
    /\ faults = MaxFaults /\ nmsgs = 0
    /\ cms = "cms_local" /\ random_drop = 0 /\ iolog_compress \in BOOLEAN
    /\ \E h \in Histories(MaxLeft) :
          iologs = [l \in Logs |-> IF l = LeftLog THEN LogOf(h, iolog_compress) ELSE NoLog]
    /\ Apart

LogRestart(s) ==
    /\ Local /\ Turn(s)
    /\ \E resume_point \in ResumePoints :
          Return(s, RestartMsg(LogPath(LeftLog), resume_point),
                 store_restart_local(World, s, LogPath(LeftLog), resume_point,
                                     LEnv("none", FALSE)),
                 "streaming", "none")
    /\ UNCHANGED finish

NextLog ==
    \E s \in 1..NSerial :
        \/ Alone(s) /\ LogRestart(s)
        \/ Alone(s) /\ LocalIobuf(s)
        \/ Alone(s) /\ LocalWinsize(s)
        \/ Alone(s) /\ LocalSuspend(s)
        \/ Alone(s) /\ LocalExit(s)
        \/ Alone(s) /\ Close(s)

SpecLog == InitLog /\ [][NextLog]_vars

CreateFailed(s) ==
    /\ cms = "cms_journal" /\ FirstCall(s)
    /\ Last(hist'[s]).type \in {ACCEPT_MSG, REJECT_MSG}
    /\ ~ret'[s]
    /\ \E n \in Names, fail \in {"none", "mkstemp", "lock", "strdup", "fdopen"} :
          LET w == journal_create(World, s, Env(fail, n, FALSE))
          IN  /\ ~w.ok
              /\ closure' = Gc(w).cl
              /\ incoming' = Gc(w).incoming
              /\ flock' = Gc(w).flock

\* C23 (as stated): whenever journal_create() fails, no file it created
\* remains under incoming/, errstr is an "unable to create journal file" or
\* "unable to lock journal file" message, and the session holds neither a
\* journal handle nor a journal path.
C23_CreateFailureClean ==
    [][\A s \in Sessions :
          CreateFailed(s) =>
              /\ incoming' = incoming
              /\ closure'[s].errstr \in {"unable to create journal file",
                                         "unable to lock journal file"}
              /\ closure'[s].journal = NoFile
              /\ closure'[s].journal_path = <<>>]_vars

\* C23 (as amended): whenever journal_create() fails, no file it created
\* remains under incoming/, no lock of the session is left, the session holds
\* no journal handle, and errstr is "unable to create journal file", "unable
\* to lock journal file" or, when journal_fdopen() failed, "unable to allocate
\* memory"; a journal path is held only in that last case, and it names no
\* file.
C23_CreateFailure ==
    [][\A s \in Sessions :
          CreateFailed(s) =>
              /\ incoming' = incoming
              /\ \A i \in Inodes : flock'[i] # s
              /\ closure'[s].journal = NoFile
              /\ closure'[s].errstr \in {"unable to create journal file",
                                         "unable to lock journal file",
                                         "unable to allocate memory"}
              /\ closure'[s].journal_path # <<>> =>
                    /\ closure'[s].errstr = "unable to allocate memory"
                    /\ Lookup(closure'[s].journal_path).dir = "incoming"
                    /\ incoming'[Lookup(closure'[s].journal_path).name] = NoIno]_vars

\* a session whose journal could not be opened as a stream: the path is
\* still in the closure, the file is gone
C23_Witness ==
    \E s \in Sessions :
        /\ cms = "cms_journal" /\ pc[s] = "failed" /\ Len(hist[s]) = 1
        /\ hist[s][1].type = ACCEPT_MSG
        /\ closure[s].errstr = "unable to allocate memory"
        /\ closure[s].journal = NoFile
        /\ closure[s].journal_path = JournalPath(INCOMING, 1)
        /\ incoming[1] = NoIno

\* the step is a call of store_exit_local() for s
LocalExitCalled(s) ==
    cms = "cms_local" /\ Handled(s) /\ Last(hist'[s]).type = EXIT_MSG

\* C24: store_exit_local() returns success for every Exit, for a session
\* with an I/O log and for one without, also when the chmod of the timing
\* file fails; it leaves errstr as it was.
C24_ExitAlwaysSucceeds ==
    [][\A s \in Sessions :
          LocalExitCalled(s) =>
              /\ ret'[s]
              /\ pc'[s] = "exited"
              /\ closure'[s].errstr = closure[s].errstr]_vars

\* an Exit whose chmod failed: success, no error message, the timing file of
\* the session's log still writable
C24_Witness ==
    \E s \in Sessions :
        /\ cms = "cms_local" /\ pc[s] = "exited" /\ ret[s]
        /\ closure[s].log_io
        /\ iologs[closure[s].iolog_dir_fd].wbit
        /\ closure[s].errstr = NULL
        /\ faults = 1

(* --------------------------- iolog_mkdtemp() --------------------------- *)
\* iolog_mkdtemp() taken line by line.  sudo_mkdir_parents(), mkdtemp(),
\* chmod() and iolog_swapids() succeed or fail as the environment decides;
\* iolog_swapids(false) that returns true has set the effective ids to the
\* owner of the I/O logs, one that returns false has left them alone, and
\* iolog_swapids(true) that returns true has set them back to the user's.
\* The function is called MaxCalls times at most, one call after the other.
MaxCalls == 2

MkdVars == <<jvars, conf, iologs, unesc, fuzz>>
OtherInit ==
    /\ Init!1 /\ Init!2 /\ Init!3 /\ Init!4 /\ Init!5 /\ Init!6 /\ Init!7 /\ Init!8
    /\ Init!9 /\ Init!10 /\ Init!11 /\ Init!12
    /\ cms = "cms_local" /\ random_drop = 0 /\ iolog_compress = FALSE

InitMkd == OtherInit /\ Apart

\* entry, lines 51-55
MkdCall ==
    /\ mkd.pc \in {"idle", "returned"} /\ mkd.ncalls < MaxCalls
    /\ mkd' = [mkd EXCEPT !.pc = "parents", !.ok = FALSE, !.uid_changed = FALSE,
                          !.errno = "none", !.entry = mkd.ids, !.nswap = 0,
                          !.nrestore = 0, !.ncalls = @ + 1, !.dir = "none",
                          !.ret = FALSE]
    /\ UNCHANGED MkdVars

\* line 57: ok = sudo_mkdir_parents(path, iolog_uid, iolog_gid, iolog_dirmode, true)
\* and the tests of lines 58 and 64
MkdParents ==
    /\ mkd.pc = "parents"
    /\ \E r \in {"ok", "EACCES", "ENOSPC"} :
          mkd' = [mkd EXCEPT !.ok = (r = "ok"),
                            !.errno = IF r = "ok" THEN "none" ELSE r,
                            !.parents = @ \/ r = "ok",
                            !.pc = IF r = "ok" THEN "swap"
                                   ELSE IF r = "EACCES" THEN "swap_retry" ELSE "exit"]
    /\ UNCHANGED MkdVars

\* line 60: uid_changed = iolog_swapids(false)
MkdSwapRetry ==
    /\ mkd.pc = "swap_retry"
    /\ \E r \in BOOLEAN :
          mkd' = [mkd EXCEPT !.uid_changed = r,
                            !.ids = IF r THEN "iolog" ELSE @,
                            !.nswap = IF r THEN @ + 1 ELSE @,
                            !.pc = IF r THEN "parents_retry" ELSE "exit"]
    /\ UNCHANGED MkdVars

\* the retry of line 62 followed by a swap at line 70 whatever uid_changed is
MkdParentsRetry_swap ==
    /\ mkd.pc = "parents_retry"
    /\ \E r \in BOOLEAN :
          mkd' = [mkd EXCEPT !.ok = r, !.parents = @ \/ r,
                            !.pc = IF r THEN "swap" ELSE "exit"]
    /\ UNCHANGED MkdVars

\* line 62: ok = sudo_mkdir_parents(path, -1, -1, iolog_dirmode, false); with
\* uid_changed set, line 69 swaps nothing
MkdParentsRetry ==
    /\ mkd.pc = "parents_retry"
    /\ \E r \in BOOLEAN :
          mkd' = [mkd EXCEPT !.ok = r, !.parents = @ \/ r,
                            !.pc = IF r THEN "mkdtemp" ELSE "exit"]
    /\ UNCHANGED MkdVars

\* lines 69-70: if (!uid_changed) uid_changed = iolog_swapids(false)
MkdSwap ==
    /\ mkd.pc = "swap"
    /\ \E r \in BOOLEAN :
          mkd' = [mkd EXCEPT !.uid_changed = r,
                            !.ids = IF r THEN "iolog" ELSE @,
                            !.nswap = IF r THEN @ + 1 ELSE @,
                            !.pc = "mkdtemp"]
    /\ UNCHANGED MkdVars

\* lines 71-73: mkdtemp(path)
MkdMkdtemp ==
    /\ mkd.pc = "mkdtemp"
    /\ \E r \in BOOLEAN :
          mkd' = [mkd EXCEPT !.ok = r, !.dir = IF r THEN "made" ELSE @,
                            !.pc = IF r THEN "chmod" ELSE "exit"]
    /\ UNCHANGED MkdVars

\* lines 75-78: chmod(path, iolog_dirmode), a failure is warned of
MkdChmod ==
    /\ mkd.pc = "chmod"
    /\ \E r \in BOOLEAN :
          mkd' = [mkd EXCEPT !.dir = IF r THEN "mode" ELSE @, !.pc = "exit"]
    /\ UNCHANGED MkdVars

\* lines 82-85: if (uid_changed) { if (!iolog_swapids(true)) ok = false; }
MkdRestore ==
    /\ mkd.pc = "exit" /\ mkd.uid_changed
    /\ \E r \in BOOLEAN :
          mkd' = [mkd EXCEPT !.ok = @ /\ r,
                            !.ids = IF r THEN "user" ELSE @,
                            !.nrestore = @ + 1,
                            !.pc = "return"]
    /\ UNCHANGED MkdVars

\* line 86: debug_return_bool(ok)
MkdReturn ==
    /\ \/ mkd.pc = "exit" /\ ~mkd.uid_changed
       \/ mkd.pc = "return"
    /\ mkd' = [mkd EXCEPT !.ret = mkd.ok, !.pc = "returned"]
    /\ UNCHANGED MkdVars

NextMkd ==
    \/ MkdCall
    \/ MkdParents
    \/ MkdSwapRetry
    \/ MkdParentsRetry
    \/ MkdSwap
    \/ MkdMkdtemp
    \/ MkdChmod
    \/ MkdRestore
    \/ MkdReturn

SpecMkd == InitMkd /\ [][NextMkd]_vars

\* C25: in every call of iolog_mkdtemp() the effective ids are swapped to the
\* owner of the I/O logs at most once; when the call returns, a restore was
\* performed exactly when the ids were swapped (and none otherwise); and a
\* call that returns true has not left the ids swapped: the ids are the
\* user's again if it swapped them.
C25_ScopedSwap ==
    /\ mkd.nswap <= 1 /\ mkd.nrestore <= mkd.nswap
    /\ mkd.uid_changed <=> mkd.nswap = 1
    /\ mkd.pc = "returned" =>
          /\ mkd.nrestore = mkd.nswap
          /\ (mkd.ret /\ mkd.nswap = 1) => mkd.ids = "user"
          /\ (mkd.ret /\ mkd.nswap = 0) => mkd.ids = mkd.entry

\* a call whose first attempt failed with EACCES, that swapped, made the
\* directory and restored the ids
C25_Witness ==
    /\ mkd.pc = "returned" /\ mkd.ret
    /\ mkd.errno = "EACCES" /\ mkd.nswap = 1 /\ mkd.nrestore = 1
    /\ mkd.dir = "mode" /\ mkd.ids = "user"

(* -------------------------- strlcpy_unescape() ------------------------- *)
\* Strings are arrays of bytes that end with a NUL, as the test passes them.
CH_NUL == 0
CH_TAB == 9
CH_SPACE == 32
CH_SEMI == 59
CH_A == 65
CH_BACKSLASH == 92
CH_f == 102

\* the destination is BufLen bytes, sizes of 0..MaxSize and sources of up to
\* MaxSrc characters are tried besides those of the table
BufLen == 10
MaxSize == 4
MaxSrc == 3

\* an isspace() that knows no white space: every backslash then escapes
isspace_none(ch) == FALSE

isspace(ch) == ch \in {CH_SPACE, CH_TAB}

\* the characters of a NUL-terminated array before its first NUL
RECURSIVE CStr(_)
CStr(b) == IF b = <<>> \/ b[1] = CH_NUL THEN <<>> ELSE <<b[1]>> \o CStr(Tail(b))

\* the loop of strlcpy_unescape(): i is the source index, d the index in dst
RECURSIVE unescape_loop(_, _, _, _, _, _)
unescape_loop(dst, src, size, i, d, len) ==
    IF src[i] = CH_NUL
    THEN [dst |-> IF size > 0 THEN [dst EXCEPT ![d] = CH_NUL] ELSE dst, len |-> len]
    ELSE LET esc == src[i] = CH_BACKSLASH /\ src[i + 1] # CH_NUL /\ ~isspace(src[i + 1])
             ch == IF esc THEN src[i + 1] ELSE src[i]
             j == IF esc THEN i + 2 ELSE i + 1
         IN  IF size > 1
             THEN unescape_loop([dst EXCEPT ![d] = ch], src, size - 1, j, d + 1, len + 1)
             ELSE unescape_loop(dst, src, size, j, d, len + 1)

\* strlcpy_unescape(dst, src, size): the buffer it leaves and what it returns
strlcpy_unescape(dst, src, size) == unescape_loop(dst, src, size, 1, 1, 0)

\* struct test_data test_data[]: input, result (<<-1>> for NULL), result_len, bufsize
NullResult == <<-1>>
test_data ==
    LET foo_bar == <<CH_f, 111, 111, CH_SPACE, 98, 97, 114>>
    IN  <<
    [input |-> <<CH_BACKSLASH, CH_NUL, CH_A, 66, 67, CH_NUL>>,
     result |-> <<CH_BACKSLASH>>, result_len |-> 1, bufsize |-> 2],
    [input |-> <<CH_BACKSLASH, CH_SPACE, CH_BACKSLASH, CH_SEMI, CH_NUL>>,
     result |-> <<CH_BACKSLASH, CH_SPACE, CH_SEMI>>, result_len |-> 3, bufsize |-> 4],
    [input |-> <<CH_BACKSLASH, CH_TAB, CH_BACKSLASH, CH_SEMI, CH_NUL>>,
     result |-> <<CH_BACKSLASH, CH_TAB, CH_SEMI>>, result_len |-> 3, bufsize |-> 4],
    [input |-> <<CH_BACKSLASH, CH_f, 111, 111, CH_NUL>>,
     result |-> <<CH_f, 111, 111>>, result_len |-> 3, bufsize |-> 4],
    [input |-> <<CH_f, 111, 111, CH_BACKSLASH, CH_SPACE, 98, 97, 114, CH_NUL>>,
     result |-> <<CH_f, 111, 111, CH_BACKSLASH, CH_SPACE, 98, 97, 114>>,
     result_len |-> 8, bufsize |-> 9],
    [input |-> Append(foo_bar, CH_NUL), result |-> <<CH_f>>, result_len |-> 7, bufsize |-> 2],
    [input |-> Append(foo_bar, CH_NUL), result |-> <<>>, result_len |-> 7, bufsize |-> 1],
    [input |-> Append(foo_bar, CH_NUL), result |-> NullResult, result_len |-> 7, bufsize |-> 0] >>

RECURSIVE Strings(_)
Strings(k) ==
    LET SrcChars == {CH_BACKSLASH, CH_SPACE, CH_TAB, CH_f}
    IN
    IF k = 0 THEN {<<>>}
    ELSE LET S == Strings(k - 1) IN S \cup {Append(x, c) : x \in S, c \in SrcChars}

InitUnesc ==
    LET \* memset(buf, 'A', sizeof(buf))
        FreshBuf == [i \in 1..BufLen |-> CH_A]
    IN
    /\ OtherInit /\ mkd = NoMkd /\ fuzz = [pc |-> "idle"]
    /\ \/ \E td \in 1..Len(test_data) :
             unesc = [NoUnesc EXCEPT !.pc = "ready", !.td = td, !.dst = FreshBuf,
                                     !.src = test_data[td].input,
                                     !.size = test_data[td].bufsize]
       \/ \E x \in Strings(MaxSrc), size \in 0..MaxSize :
             unesc = [NoUnesc EXCEPT !.pc = "ready", !.dst = FreshBuf,
                                     !.src = Append(x, CH_NUL), !.size = size]

\* line 60: len = strlcpy_unescape(buf, td->input, td->bufsize)
UnescCall ==
    /\ unesc.pc = "ready"
    /\ LET r == strlcpy_unescape(unesc.dst, unesc.src, unesc.size)
       IN  unesc' = [unesc EXCEPT !.pc = "called", !.dst = r.dst, !.len = r.len]
    /\ UNCHANGED <<jvars, conf, iologs, mkd, fuzz>>

\* lines 61-81: the four tests of test_strlcpy_unescape() on one entry
UnescCheck ==
    /\ unesc.pc = "called" /\ unesc.td > 0
    /\ LET td == test_data[unesc.td]
           len == IF td.result = NullResult THEN 0 ELSE Len(td.result)
           e1 == IF unesc.len # td.result_len THEN 1 ELSE 0
           e2 == IF (len # 0 \/ td.bufsize # 0) /\ len >= td.bufsize THEN 1 ELSE 0
           e3 == IF td.result # NullResult /\ td.result # CStr(unesc.dst) THEN 1 ELSE 0
           e4 == IF unesc.dst[td.bufsize + 1] # CH_A THEN 1 ELSE 0
       IN  unesc' = [unesc EXCEPT !.pc = "checked", !.errors = @ + e1 + e2 + e3 + e4]
    /\ UNCHANGED <<jvars, conf, iologs, mkd, fuzz>>

NextUnesc ==
    \/ UnescCall
    \/ UnescCheck

SpecUnesc == InitUnesc /\ [][NextUnesc]_vars

\* the full unescaped form of a string: a backslash followed by a character
\* that is not white space is removed, any other character is kept
RECURSIVE Unescaped(_)
Unescaped(x) ==
    IF x = <<>> THEN <<>>
    ELSE IF x[1] = CH_BACKSLASH /\ Len(x) >= 2 /\ ~isspace(x[2])
    THEN <<x[2]>> \o Unescaped(SubSeq(x, 3, Len(x)))
    ELSE <<x[1]>> \o Unescaped(Tail(x))

\* C26: strlcpy_unescape(dst, src, size) returns the length of the full
\* unescaped form of src whatever size is; it writes nothing at or after
\* dst[size] (nothing at all when size is 0); when size > 0 dst holds the
\* first size-1 characters of the unescaped form, or all of it when it is
\* shorter, followed by a NUL; and every entry of the test's table passes
\* the four tests made on it.
C26_Unescape ==
    unesc.pc \in {"called", "checked"} =>
        LET u == Unescaped(CStr(unesc.src))
            n == IF Len(u) < unesc.size - 1 THEN Len(u) ELSE unesc.size - 1
        IN  /\ unesc.len = Len(u)
            /\ \A i \in 1..BufLen : i > unesc.size => unesc.dst[i] = CH_A
            /\ unesc.size > 0 =>
                  /\ SubSeq(unesc.dst, 1, n) = SubSeq(u, 1, n)
                  /\ unesc.dst[n + 1] = CH_NUL
                  /\ \A i \in 1..BufLen : i > n + 1 => unesc.dst[i] = CH_A
            /\ unesc.pc = "checked" => unesc.errors = 0

\* entry 6 of the table has been run: "foo bar" into a buffer of 2 bytes
\* gives "f", a NUL, and 7 as the length
C26_Witness ==
    /\ unesc.pc = "checked" /\ unesc.td = 6 /\ unesc.errors = 0
    /\ unesc.len = 7
    /\ unesc.dst[1] = CH_f /\ unesc.dst[2] = CH_NUL /\ unesc.dst[3] = CH_A

\* C27: when a session of the local sink that began with a successful
\* Restart of an I/O log receives Exit, and the chmod does not fail,
\* store_exit_local() leaves the write bit of the timing file of that log
\* clear, as it does for a session that began with Accept and expects
\* I/O buffers.
C27_ExitAfterRestartCompletes ==
    [][\A s \in Sessions :
          (/\ LocalExitCalled(s)
           /\ StartedBy(s, RESTART_MSG) \/ (StartedBy(s, ACCEPT_MSG) /\ hist[s][1].flag)
           /\ pc[s] = "streaming"
           /\ faults' = faults) =>
              ~iologs'[closure[s].iolog_dir_fd].wbit]_vars

\* C28: the journal that journal_restart() opens for log_id is the file
\* <relay-dir>/incoming/<s>, s being log_id without everything up to and
\* including its first slash when it has a slash that is not its first
\* character, and log_id itself otherwise; when there is no such file the
\* restart fails with "unable to create journal file".  (Steps in which the
\* environment made a call fail are left aside.)
C28_HostnameStrip ==
    [][LET \* a log id without what comes before and with its first slash, when it has a
           \* slash that is not its first character
           Stripped(log_id) ==
               LET slashes == {i \in 1..Len(log_id) : log_id[i] = SLASH}
                   first == CHOOSE i \in slashes : \A j \in slashes : i <= j
               IN  IF slashes # {} /\ 1 \notin slashes
                   THEN [k \in 1..(Len(log_id) - first) |-> log_id[first + k]]
                   ELSE log_id
       IN
       \A s \in Sessions :
          (/\ cms = "cms_journal" /\ FirstCall(s) /\ hist'[s][1].type = RESTART_MSG
           /\ faults' = faults) =>
              LET path == RelayDir \o <<SLASH>> \o INCOMING \o <<SLASH>>
                              \o Stripped(hist'[s][1].log_id)
              IN  IF InoAt(path) # NoIno /\ Lookup(path).dir = "incoming"
                  THEN /\ closure'[s].journal_path = path
                       /\ closure'[s].journal.ino = InoAt(path)
                  ELSE /\ ~ret'[s]
                       /\ closure'[s].errstr = "unable to create journal file"
                       /\ closure'[s].journal = NoFile]_vars

\* a journal opened by a log id with a host name, and one opened by a log id
\* that begins with a slash
C28_Witness ==
    \E s \in Sessions :
        /\ cms = "cms_journal" /\ StartedBy(s, RESTART_MSG) /\ pc[s] = "streaming"
        /\ hist[s][1].log_id = <<CH_h, SLASH>> \o NameStr(1)
        /\ closure[s].journal_path = JournalPath(INCOMING, 1)
        /\ closure[s].journal.ino = incoming[1]

\* the sum of the data lengths that the records of a timing file give for
\* stream f
RECURSIVE Recorded(_, _)
Recorded(timing, f) ==
    IF timing = <<>> THEN 0
    ELSE Recorded(SubSeq(timing, 1, Len(timing) - 1), f)
         + (IF Last(timing).event = f THEN Last(timing).nbytes ELSE 0)

\* C29: in every I/O log the data lengths that the timing file records for
\* a stream add up to no more than the bytes of that stream's file, after
\* every call, successful or failed; and a call of store_iobuf_local() that
\* changes the timing file has written the data of its chunk to the stream
\* file, at the position of that file (a call whose data write failed leaves
\* the timing file as it was).
C29_DataBeforeTiming ==
    [][LET \* the step is a call of store_iobuf_local() for s
           LocalIobufCalled(s) ==
               cms = "cms_local" /\ Handled(s) /\ Last(hist'[s]).type \in BufTypes
       IN
       /\ \A l \in Logs, f \in Streams :
             Recorded(iologs'[l].timing, f) <= Len(iologs'[l].data[f])
       /\ \A s \in Sessions :
             LocalIobufCalled(s) =>
                 LET l == closure[s].iolog_dir_fd
                     m == Last(hist'[s])
                     f == IofdOf(m)
                     at == IF closure[s].iolog_files[f].enabled
                           THEN closure[s].iolog_files[f].pos ELSE 0
                 IN  iologs'[l].timing # iologs[l].timing =>
                         /\ Len(iologs'[l].data[f]) >= at + Len(DataOf(m))
                         /\ SubSeq(iologs'[l].data[f], at + 1, at + Len(DataOf(m)))
                               = DataOf(m)
                         /\ closure'[s].iolog_files[f].pos = at + Len(DataOf(m))]_vars

\* C30: when a session that restarted a journal stores its Exit, the journal
\* that journal_finish() moves to outgoing/ is, byte for byte, what the
\* session had read and written up to then (the frames of the old journal up
\* to the resume frame, then the frames written after the restart) followed
\* by the frame of the Exit, and nothing after it.
C30_NoTailAfterRestart ==
    [][LET \* the step is a successful journal_write() of the Exit of a session that
           \* restarted a journal, followed by the fflush() of journal_finish()
           ExitAfterRestart(s) ==
               /\ cms = "cms_journal" /\ Handled(s) /\ Last(hist'[s]).type = EXIT_MSG
               /\ StartedBy(s, RESTART_MSG) /\ pc[s] = "streaming"
               /\ pc'[s] = "finish_close"
       IN
       \A s \in Sessions :
          ExitAfterRestart(s) =>
              LET h == closure[s].journal
                  c == Flushed(fdata[h.ino], h)
              IN  fdata'[h.ino] = SubSeq(c, 1, h.pos) \o Frame(Pack(ExitMsg))]_vars

\* C31: when journal_finish() fails because the flush, the creation of the
\* outgoing name or the rename fails, the journal is still under its
\* incoming/ path and the file holds every frame written so far, the stored
\* journal path is unchanged, the outgoing name that attempt made is gone
\* and errstr is set.
C31_FailedFinishStaged ==
    [][LET \* the step is a journal_finish() of s that failed at fflush()
           \* (journal_write() had put the Exit frame in the stream), at
           \* journal_mkstemp() or at rename()
           FinishFailed(s) ==
               LET ExitFrame == Frame(Pack(ExitMsg))
                   h == closure'[s].journal
                   c == Flushed(fdata'[h.ino], h)
               IN  \/ /\ cms = "cms_journal" /\ Handled(s)
                      /\ Last(hist'[s]).type = EXIT_MSG /\ ~ret'[s]
                      /\ \/ closure'[s].errstr = "unable to rename journal file"
                         \/ /\ closure'[s].errstr = "unable to write journal file"
                            /\ h.pos >= Len(ExitFrame)
                            /\ SubSeq(c, h.pos - Len(ExitFrame) + 1, h.pos) = ExitFrame
                   \/ /\ pc[s] = "finish_rename" /\ pc'[s] = "failed"
                      /\ closure'[s].errstr = "unable to rename journal file"
       IN
       \A s \in Sessions :
          FinishFailed(s) =>
              LET at == Lookup(closure[s].journal_path)
                  ino == closure[s].journal.ino
              IN  /\ at.dir = "incoming" /\ incoming'[at.name] = ino
                  /\ fdata'[ino] = Flushed(fdata'[ino], closure'[s].journal)
                  /\ closure'[s].journal_path = closure[s].journal_path
                  /\ outgoing' = IF pc[s] = "finish_rename"
                                 THEN [outgoing EXCEPT ![finish[s]] = NoIno]
                                 ELSE outgoing
                  /\ closure'[s].errstr \in {"unable to write journal file",
                                             "unable to rename journal file"}]_vars

(* --------------------------- fuzz stub main() --------------------------- *)
\* main() is run on up to MaxFiles file arguments of up to MaxFileLen bytes
MaxFiles == 2
MaxFileLen == 2

\* the loop body of main() that calls LLVMFuzzerTestOneInput() after a short
\* read as well, with the bytes that were read
fuzz_file_short(st, i, f) ==
    LET filesize == Len(f.data)
        failed == [st EXCEPT !.errors = @ + 1]
        grow == st.bufsize < filesize
        buf1 == IF grow THEN st.buf \o [k \in 1..(filesize - st.bufsize) |-> -1]
                ELSE st.buf
        buf2 == [k \in 1..Len(buf1) |-> IF k <= f.nread THEN f.data[k] ELSE buf1[k]]
    IN  IF ~f.open \/ ~f.stat
        THEN [failed EXCEPT !.stderr = Append(@, "open")]
        ELSE IF f.toobig
        THEN [failed EXCEPT !.stderr = Append(@, "E2BIG")]
        ELSE IF grow /\ f.nomem
        THEN [failed EXCEPT !.stderr = Append(@, "realloc")]
        ELSE IF f.nread = -1
        THEN [failed EXCEPT !.buf = buf2, !.bufsize = Len(buf1),
                            !.stderr = Append(@, "read")]
        ELSE [st EXCEPT !.buf = buf2, !.bufsize = Len(buf1),
                        !.stderr = Append(@, "Running"),
                        !.calls = Append(@, [arg |-> i,
                                             data |-> SubSeq(buf2, 1, f.nread)])]

\* the loop body of main() for argv[i], lines 67-115. open() and fstat()
\* succeed or not as f says; toobig is the test of lines 76-82, which only a
\* build without __LP64__ has; nomem is what realloc() answers if it is
\* called; nread is what read() returns, and the bytes of buf that realloc()
\* added and read() has not filled are indeterminate (-1).
fuzz_file(st, i, f) ==
    LET filesize == Len(f.data)
        failed == [st EXCEPT !.errors = @ + 1]
        grow == st.bufsize < filesize
        buf1 == IF grow THEN st.buf \o [k \in 1..(filesize - st.bufsize) |-> -1]
                ELSE st.buf
        buf2 == [k \in 1..Len(buf1) |-> IF k <= f.nread THEN f.data[k] ELSE buf1[k]]
    IN  IF ~f.open \/ ~f.stat
        THEN [failed EXCEPT !.stderr = Append(@, "open")]
        ELSE IF f.toobig
        THEN [failed EXCEPT !.stderr = Append(@, "E2BIG")]
        ELSE IF grow /\ f.nomem
        THEN [failed EXCEPT !.stderr = Append(@, "realloc")]
        ELSE IF f.nread # filesize
        THEN [failed EXCEPT !.buf = buf2, !.bufsize = Len(buf1),
                            !.stderr = Append(@, "read")]
        ELSE [st EXCEPT !.buf = buf2, !.bufsize = Len(buf1),
                        !.stderr = Append(@, "Running"),
                        !.calls = Append(@, [arg |-> i,
                                             data |-> SubSeq(buf2, 1, f.nread)])]

\* main() entered with its arguments: files that cannot be opened, that cannot
\* be stat'ed, that are too big, and files of some bytes for which realloc()
\* may fail and read() may fail or come back short
InitFuzz ==
    LET Datas == UNION {[1..n -> {1, 2}] : n \in 0..MaxFileLen}
        Unread == {[open |-> o, stat |-> FALSE, toobig |-> FALSE, nomem |-> FALSE,
                    data |-> <<>>, nread |-> 0] : o \in BOOLEAN}
                  \cup {[open |-> TRUE, stat |-> TRUE, toobig |-> TRUE,
                         nomem |-> FALSE, data |-> <<>>, nread |-> 0]}
        Files == Unread \cup
                 {[open |-> TRUE, stat |-> TRUE, toobig |-> FALSE, nomem |-> m,
                   data |-> d, nread |-> n] :
                      m \in BOOLEAN, d \in Datas, n \in -1..MaxFileLen}
    IN  /\ OtherInit /\ mkd = NoMkd /\ unesc = NoUnesc
        /\ \E n \in 0..MaxFiles :
              \E argv \in [1..n -> {f \in Files : f.nread <= Len(f.data)}] :
                 fuzz = [pc |-> "loop", argv |-> argv, i |-> 1, errors |-> 0,
                         bufsize |-> 0, buf |-> <<>>, stderr |-> <<>>,
                         calls |-> <<>>, ret |-> 0]

\* for (i = 1; i < argc; i++) { ... } free(buf); return errors;
NextFuzz ==
    \/ /\ fuzz.pc = "loop" /\ fuzz.i <= Len(fuzz.argv)
       /\ fuzz' = [fuzz_file(fuzz, fuzz.i, fuzz.argv[fuzz.i]) EXCEPT !.i = @ + 1]
       /\ UNCHANGED <<jvars, conf, iologs, mkd, unesc>>
    \/ /\ fuzz.pc = "loop" /\ fuzz.i > Len(fuzz.argv)
       /\ fuzz' = [fuzz EXCEPT !.pc = "returned", !.ret = fuzz.errors, !.buf = <<>>,
                               !.bufsize = 0]
       /\ UNCHANGED <<jvars, conf, iologs, mkd, unesc>>

SpecFuzz == InitFuzz /\ [][NextFuzz]_vars

\* C32: main() takes its file arguments in order; a file that cannot be
\* opened, stat'ed, buffered or read in full adds one to the error count and
\* is skipped, and the loop goes on; LLVMFuzzerTestOneInput() is called once,
\* with the whole contents, for each file read in full and for no other; what
\* main() returns is the number of files that failed.
C32_FuzzDriver ==
    fuzz.pc \in {"loop", "returned"} =>
        LET done == 1..(fuzz.i - 1)
            Failed(j) ==
                LET f == fuzz.argv[j]
                IN  \/ ~f.open \/ ~f.stat \/ f.toobig
                    \/ fuzz.stderr[j] = "realloc"
                    \/ f.nread # Len(f.data)
            CallsFor(j) == {k \in 1..Len(fuzz.calls) : fuzz.calls[k].arg = j}
        IN  /\ Len(fuzz.stderr) = fuzz.i - 1
            /\ \A j \in done :
                  /\ Cardinality(CallsFor(j)) = IF Failed(j) THEN 0 ELSE 1
                  /\ \A k \in CallsFor(j) : fuzz.calls[k].data = fuzz.argv[j].data
                  /\ fuzz.stderr[j] = "realloc" =>
                        (fuzz.argv[j].nomem /\ fuzz.argv[j].data # <<>>)
            /\ \A k \in 1..Len(fuzz.calls) : fuzz.calls[k].arg \in done
            /\ \A k, l \in 1..Len(fuzz.calls) :
                  k < l => fuzz.calls[k].arg < fuzz.calls[l].arg
            /\ fuzz.errors = Cardinality({j \in done : Failed(j)})
            /\ fuzz.pc = "returned" =>
                  (fuzz.i = Len(fuzz.argv) + 1 /\ fuzz.ret = fuzz.errors)

\* main() has returned 1 after a first file whose read came back short and a
\* second file of two bytes that was handed to LLVMFuzzerTestOneInput()
C32_Witness ==
    /\ fuzz.pc = "returned" /\ Len(fuzz.argv) = 2 /\ fuzz.ret = 1
    /\ fuzz.argv[1].data = <<1, 2>> /\ fuzz.argv[1].nread = 1
    /\ fuzz.argv[2].data = <<2, 1>>
    /\ fuzz.calls = <<[arg |-> 2, data |-> <<2, 1>>]>>
    /\ fuzz.stderr = <<"read", "Running">>

====
